---- MODULE Spec2Model ----
(***************************************************************************)
(* CRC RevEng: the reverse-engineering search reveng() of reveng.c and the *)
(* -s branch of main() of cli.c.                                           *)
(*                                                                         *)
(* A poly_t is a sequence of bits; index 1 of the sequence is bit 0 of the *)
(* C poly (the highest term) and Len is plen().                            *)
(***************************************************************************)
EXTENDS Integers, Sequences, FiniteSets, TLC

(***************************************************************************)
(* The state: a call of reveng() (reveng.c) with the callbacks ufound()    *)
(* and uprog() of cli.c, and the locals of main() (cli.c).                 *)
(***************************************************************************)
VARIABLES
  guess,     \* the model passed to reveng(): spoly, init, xorout, flags
  qpoly,     \* the range end poly passed to reveng()
  rflags0,   \* rflags as passed to reveng()
  argpolys,  \* the samples, argpolys[0 .. args-1]
  pc,        \* position in reveng()
  rflags,    \* the local rflags of reveng()
  pwork,     \* the GCD of the differences
  factor,    \* the trial factor
  qqpoly,    \* the local copy of the range end poly
  gpoly,     \* the generator found in short mode or as the unique GCD
  spin,      \* candidates tested so far
  seq,       \* sequence number of the next uprog() call
  ctx,       \* results, ufound() calls and the calls of the strategies
  prog,      \* the uprog() calls made, in order, each with the number of
             \* trial factors tested before it
  errout,    \* the lines uprog() has printed
  tested,    \* the trial factors the loop body has run for, in order
  path,      \* the return path taken
  ret,       \* the array reveng() returns
  mpc,         \* position in main()
  model,       \* main(): the model the options build
  main_rflags, \* main(): rflags
  uflags,      \* main(): uflags
  width,       \* main(): width
  main_qpoly,  \* main(): qpoly
  apolys,      \* main(): the samples read from the arguments
  main_pass,   \* main(): pass
  nopts,       \* options getopt() has returned
  scan,        \* whether the scan against the preset models has run
  revcalls,    \* the calls of reveng() made by main(): pass and guess flags
  stdout,      \* the models ufound() has printed for main()
  stderr,      \* the warnings and errors main() has printed
  status       \* the exit status

(***************************************************************************)
(* Bounds of the model.                                                    *)
(***************************************************************************)
\* The widest poly.
MaxWidth == 2

\* The longest list of short samples.
MaxArgs == 2

\* A short sample has at most this many message bits.
ShortExtra == 1

\* A long sample has this many message bits.
LongExtra == 3

\* The width of the searches that report progress.
ProgWidth == 3

\* The width of the short mode searches with several cofactors.
ShortWidth == 4
SelectArgs == 3
SelectExtra == 2
MixedLen == 2
\* The width of the divisors whose row reduction is followed.
ReduceWidth == 4

\* The number of samples generated under one model.
GenSamples == 4

\* The most options on a command line.
MaxOpts == 3

(***************************************************************************)
(* Program constants.                                                      *)
(***************************************************************************)
R_SPMASK == 1

(***************************************************************************)
(* The bit-polynomial store (poly.c).                                      *)
(***************************************************************************)
Bit == {0, 1}

Xor(a, b) == (a + b) % 2

pzero == << >>

plen(p) == Len(p)

palloc(n) == [i \in 1..n |-> 0]

RECURSIVE BitStrings(_)
BitStrings(n) ==
  IF n = 0 THEN {<< >>}
  ELSE {Append(p, b) : p \in BitStrings(n - 1), b \in Bit}

ptst(p) == \E i \in 1..Len(p) : p[i] = 1

\* pinv: every bit inverted.
pinv(p) == [i \in 1..Len(p) |-> 1 - p[i]]

\* praloc: the length becomes n, the high (left) end stays in place: the
\* low end is cut or filled with zeros.
praloc(p, n) == [i \in 1..n |-> IF i <= Len(p) THEN p[i] ELSE 0]

\* pright: the length becomes n, the low (right) end stays in place.
pright(p, n) ==
  [i \in 1..n |-> IF i + Len(p) - n >= 1 THEN p[i + Len(p) - n] ELSE 0]

\* prev: the whole poly bit-reversed.
prev(p) == [i \in 1..Len(p) |-> p[Len(p) + 1 - i]]

\* pfirst: C index of the first set bit, plen if there is none.
pfirst(p) ==
  IF ptst(p) THEN (CHOOSE i \in 1..Len(p) :
                      p[i] = 1 /\ \A k \in 1..(i - 1) : p[k] = 0) - 1
  ELSE Len(p)

\* plast: C index of the last set bit plus one, 0 if there is none.
plast(p) ==
  IF ptst(p) THEN CHOOSE i \in 1..Len(p) :
                      p[i] = 1 /\ \A k \in (i + 1)..Len(p) : p[k] = 0
  ELSE 0

\* pnorm: trailing zero bits are stripped; the poly is left-justified, so
\* that a normalized difference has its top term and its +1 term
\* (reveng.c, "differences come normalized from modpol()").
pnorm(p) == SubSeq(p, pfirst(p) + 1, plast(p))

\* psum: src is added (XOR) into dst from bit offset ofs; dst grows when
\* src reaches past its end.
psum(dst, src, ofs) ==
  LET len == IF Len(src) + ofs > Len(dst) THEN Len(src) + ofs ELSE Len(dst)
      d == praloc(dst, len)
  IN  [i \in 1..len |-> IF i > ofs /\ i <= ofs + Len(src)
                      THEN Xor(d[i], src[i - ofs]) ELSE d[i]]

\* pshift with destination offset 0: bits [start, end) of src followed by
\* pad zero bits.
pshift(src, start, end, pad) == SubSeq(src, start + 1, end) \o palloc(pad)

\* The value of a poly read as a binary number, highest term first.
RECURSIVE PolyVal(_)
PolyVal(p) ==
  IF Len(p) = 0 THEN 0
  ELSE 2 * PolyVal(SubSeq(p, 1, Len(p) - 1)) + p[Len(p)]

\* pcmp: lexicographic on the bits from the highest term; when one is a
\* prefix of the other, the longer is the greater.  -1, 0 or 1.
RECURSIVE pcmpFrom(_, _, _)
pcmpFrom(a, b, i) ==
  IF i > Len(a) /\ i > Len(b) THEN 0
  ELSE IF i > Len(a) THEN -1
  ELSE IF i > Len(b) THEN 1
  ELSE IF a[i] < b[i] THEN -1
  ELSE IF a[i] > b[i] THEN 1
  ELSE pcmpFrom(a, b, i + 1)

pcmp(a, b) == pcmpFrom(a, b, 1)

\* piter: the poly as a fixed-width binary counter, plus one.  The value
\* after the call; the C function returns whether it is nonzero.
RECURSIVE piterFrom(_, _)
piterFrom(p, i) ==
  IF i = 0 THEN p
  ELSE IF p[i] = 0 THEN [p EXCEPT ![i] = 1]
  ELSE piterFrom([p EXCEPT ![i] = 0], i - 1)

piter(p) == piterFrom(p, Len(p))

\* pmpar: parity of poly masked by mask, highest terms aligned.
RECURSIVE pmparFrom(_, _, _)
pmparFrom(p, mask, i) ==
  IF i > Len(p) \/ i > Len(mask) THEN 0
  ELSE Xor(p[i] * mask[i], pmparFrom(p, mask, i + 1))

pmpar(p, mask) == pmparFrom(p, mask, 1)

\* prcp: the chopped reciprocal of a chopped poly, of the same width: the
\* full poly (top term restored) is reversed, left-justified and chopped.
prcp(p) ==
  LET full == prev(<<1>> \o p)
      fst == pfirst(full)
  IN  praloc(SubSeq(full, fst + 2, Len(full)), Len(p))

(***************************************************************************)
(* The CRC engine (poly.c, pcrc).                                          *)
(***************************************************************************)
XorBits(a, b) == [i \in 1..Len(a) |-> Xor(a[i], IF i <= Len(b) THEN b[i] ELSE 0)]

\* One step of the division: the register shifts left by one, the next
\* message bit comes in at the right, and the divisor is added when the
\* bit shifted out is 1.  quot collects the bits shifted out.
pcrcStep(st, bit, divisor) ==
  LET top == st.rem[1]
      sh  == Tail(st.rem) \o <<bit>>
  IN  [rem  |-> IF top = 1 THEN XorBits(sh, divisor) ELSE sh,
       quot |-> Append(st.quot, top)]

\* The steps for the message bits lo .. hi, in order.  The range is taken
\* in two halves, which keeps the depth of the evaluation logarithmic.
RECURSIVE pcrcRun(_, _, _, _, _)
pcrcRun(st, msg, lo, hi, divisor) ==
  IF lo > hi THEN st
  ELSE IF lo = hi THEN pcrcStep(st, msg[lo], divisor)
  ELSE LET mid  == (lo + hi) \div 2
           half == pcrcRun(st, msg, lo, mid, divisor)
       IN  IF Len(half.quot) = Len(st.quot) + (mid - lo + 1)
           THEN pcrcRun(half, msg, mid + 1, hi, divisor)
           ELSE half

\* The register starts as the first width bits of the message plus init;
\* a message shorter than the width is padded on the right.
pcrcBoth(message, divisor, init, xorout, flags) ==
  LET wd     == Len(divisor)
      padded == IF "MULXN" \in flags THEN message \o palloc(wd)
                ELSE IF Len(message) < wd THEN praloc(message, wd)
                ELSE message
      st0    == [rem |-> XorBits(SubSeq(padded, 1, wd), init), quot |-> << >>]
      run    == pcrcRun(st0, padded, wd + 1, Len(padded), divisor)
  IN  IF wd = 0 THEN [rem |-> << >>, quot |-> << >>]
      ELSE [rem  |-> XorBits(run.rem, xorout),
            quot |-> SubSeq(run.quot, 1, Len(padded) - wd - (Len(padded) - Len(message)))]

\* pcrc with a null quotient pointer.
pcrc(message, divisor, init, xorout, flags) ==
  pcrcBoth(message, divisor, init, xorout, flags).rem

\* The quotient pcrc stores through a non-null quotient pointer.
pcrcQuot(message, divisor, init, xorout, flags) ==
  pcrcBoth(message, divisor, init, xorout, flags).quot

\* pmod: the divisor is chopped (its top term dropped) and the dividend is
\* divided by it as pcrc does, highest terms aligned.
pmod(dividend, divisor) ==
  pcrc(dividend, pshift(divisor, pfirst(divisor) + 1, plast(divisor), 0),
       pzero, pzero, {})

(***************************************************************************)
(* Models (model.c).                                                       *)
(***************************************************************************)
\* The bits of the ASCII string "123456789", highest bit of each character
\* first.
CheckChars == <<49, 50, 51, 52, 53, 54, 55, 56, 57>>

CharBits(c) == [i \in 1..8 |-> (c \div (2 ^ (8 - i))) % 2]

RECURSIVE CheckStr(_, _)
CheckStr(k, refin) ==
  IF k > Len(CheckChars) THEN << >>
  ELSE (IF refin THEN prev(CharBits(CheckChars[k])) ELSE CharBits(CheckChars[k]))
       \o CheckStr(k + 1, refin)

\* mcheck: the check value is the CRC of "123456789" under the model, the
\* magic value the CRC of all ones of the width plus XorOut.
mcheck(m) ==
  LET crc == pcrc(CheckStr(1, "REFIN" \in m.flags), m.spoly, m.init, pzero, {"MULXN"})
      chk == XorBits(IF "REFOUT" \in m.flags THEN prev(crc) ELSE crc, m.xorout)
      mag == XorBits(pcrc(pinv(palloc(Len(m.spoly))), m.spoly, pzero, pzero, {"MULXN"}),
                     m.xorout)
  IN  [m EXCEPT !.check = chk, !.magic = mag]

(***************************************************************************)
(* reveng.c: the strategies.  cx is what a reveng() call has produced so  *)
(* far: result is the result array (resc is its length), found the models  *)
(* handed to ufound() in order, chk one entry per chkres() call, disp one  *)
(* entry per dispch() call, reads the indices of argpolys[] read.        *)
(***************************************************************************)
ctx0 == [result |-> << >>, found |-> << >>, chk |-> << >>, disp |-> << >>,
         reads |-> {}]

\* Position (from 1) of the first sample of the shortest length.
RECURSIVE ShortestFrom(_, _, _)
ShortestFrom(aps, i, a) ==
  IF i > Len(aps) THEN a
  ELSE ShortestFrom(aps, i + 1,
                    IF Len(aps[i]) < Len(aps[a]) THEN i ELSE a)

\* The number of samples chkres() reads: up to and including the first one
\* whose CRC is nonzero.
\* chkres() testing the first sample only.
ChkFirst(aps, i, divisor, init, xor) ==
  IF i > Len(aps) THEN i
  ELSE IF ptst(pcrc(aps[i], divisor, init, xor, {})) THEN i
  ELSE Len(aps) + 1

RECURSIVE ChkScan(_, _, _, _, _)
ChkScan(aps, i, divisor, init, xor) ==
  IF i > Len(aps) THEN i
  ELSE IF ptst(pcrc(aps[i], divisor, init, xor, {})) THEN i
  ELSE ChkScan(aps, i + 1, divisor, init, xor)

\* chkres() putting the model in front of the others.
chkresFront(cx, divisor, init, flags, xorout, aps) ==
  LET xr    == IF "REFOUT" \in flags THEN prev(xorout) ELSE xorout
      stop  == ChkScan(aps, 1, divisor, init, xr)
      ok    == stop > Len(aps)
      rptr  == mcheck([spoly |-> divisor, init |-> init, flags |-> flags,
                       xorout |-> xorout, check |-> pzero, magic |-> pzero,
                       name |-> "NULL"])
      res1  == IF ok THEN <<rptr>> \o cx.result ELSE cx.result
      fnd1  == IF ok THEN <<rptr>> \o cx.found ELSE cx.found
      call  == [divisor |-> divisor, init |-> init, flags |-> flags,
                xorout |-> xorout, resc0 |-> Len(cx.result),
                found0 |-> Len(cx.found), resc1 |-> Len(res1),
                found1 |-> Len(fnd1)]
  IN  [result |-> res1, found |-> fnd1, chk |-> Append(cx.chk, call),
       disp |-> cx.disp, reads |-> cx.reads]

\* chkres() without the reversal of XorOut.
chkresPlainXor(cx, divisor, init, flags, xorout, aps) ==
  LET stop  == ChkScan(aps, 1, divisor, init, xorout)
      ok    == stop > Len(aps)
      rptr  == mcheck([spoly |-> divisor, init |-> init, flags |-> flags,
                       xorout |-> xorout, check |-> pzero, magic |-> pzero,
                       name |-> "NULL"])
      res1  == IF ok THEN Append(cx.result, rptr) ELSE cx.result
      fnd1  == IF ok THEN Append(cx.found, rptr) ELSE cx.found
      call  == [divisor |-> divisor, init |-> init, flags |-> flags,
                xorout |-> xorout, resc0 |-> Len(cx.result),
                found0 |-> Len(cx.found), resc1 |-> Len(res1),
                found1 |-> Len(fnd1)]
  IN  [result |-> res1, found |-> fnd1, chk |-> Append(cx.chk, call),
       disp |-> cx.disp, reads |-> cx.reads]

chkres(cx, divisor, init, flags, xorout, aps) ==
  LET xr    == IF "REFOUT" \in flags THEN prev(xorout) ELSE xorout
      stop  == ChkScan(aps, 1, divisor, init, xr)
      ok    == stop > Len(aps)
      nread == IF ok THEN Len(aps) ELSE stop
      rd    == cx.reads \cup {k - 1 : k \in 1..nread}
      rptr  == mcheck([spoly |-> divisor, init |-> init, flags |-> flags,
                       xorout |-> xorout, check |-> pzero, magic |-> pzero,
                       name |-> "NULL"])
      res1  == IF ok THEN Append(cx.result, rptr) ELSE cx.result
      fnd1  == IF ok THEN Append(cx.found, rptr) ELSE cx.found
      call  == [divisor |-> divisor, init |-> init, flags |-> flags,
                xorout |-> xorout, resc0 |-> Len(cx.result),
                found0 |-> Len(cx.found), resc1 |-> Len(res1),
                found1 |-> Len(fnd1)]
  IN  [result |-> res1, found |-> fnd1, chk |-> Append(cx.chk, call),
       disp |-> cx.disp, reads |-> rd]

calout(cx, divisor, init, flags, aps) ==
  IF Len(aps) < 1 THEN cx
  ELSE LET aptr   == ShortestFrom(aps, 2, 1)
           crc    == pcrc(aps[aptr], divisor, init, pzero, {})
           xo     == IF "REFOUT" \in flags THEN prev(crc) ELSE crc
           c1     == [cx EXCEPT !.reads = @ \cup (0..(Len(aps) - 1))]
       IN  chkres(c1, divisor, init, flags, xo, aps)

\* calini() reversing XorOut when REFOUT is set.
caliniRefOut(cx, divisor, flags, xorout, aps) ==
  IF Len(aps) < 1 THEN cx
  ELSE LET aptr   == ShortestFrom(aps, 2, 1)
           rcpdiv == prcp(divisor)
           rxor   == IF "REFOUT" \in flags THEN prev(xorout) ELSE xorout
           arg    == prev(aps[aptr])
           ini    == prev(pcrc(arg, rcpdiv, rxor, pzero, {}))
           c1     == [cx EXCEPT !.reads = @ \cup (0..(Len(aps) - 1))]
       IN  chkres(c1, divisor, ini, flags, xorout, aps)

calini(cx, divisor, flags, xorout, aps) ==
  IF Len(aps) < 1 THEN cx
  ELSE LET aptr   == ShortestFrom(aps, 2, 1)
           rcpdiv == prcp(divisor)
           rxor   == IF "REFOUT" \notin flags THEN prev(xorout) ELSE xorout
           arg    == prev(aps[aptr])
           ini    == prev(pcrc(arg, rcpdiv, rxor, pzero, {}))
           c1     == [cx EXCEPT !.reads = @ \cup (0..(Len(aps) - 1))]
       IN  chkres(c1, divisor, ini, flags, xorout, aps)

\* engini: the shortest sample and the first longer one.
RECURSIVE TwoShortestFirst(_, _, _, _)
TwoShortestFirst(aps, i, a, b) ==
  IF i > Len(aps) THEN <<a, b>>
  ELSE LET ilen == Len(aps[i])
           alen == Len(aps[a])
       IN  IF ilen < alen THEN TwoShortestFirst(aps, i + 1, i, a)
           ELSE IF ilen > alen /\ a = b
                THEN TwoShortestFirst(aps, i + 1, a, i)
           ELSE TwoShortestFirst(aps, i + 1, a, b)

\* engini: the samples of the two shortest lengths, as positions <<a, b>>
\* with their lengths.
RECURSIVE TwoShortest(_, _, _, _)
TwoShortest(aps, i, a, b) ==
  IF i > Len(aps) THEN <<a, b>>
  ELSE LET ilen == Len(aps[i])
           alen == Len(aps[a])
           blen == Len(aps[b])
       IN  IF ilen < alen THEN TwoShortest(aps, i + 1, i, a)
           ELSE IF ilen > alen /\ (a = b \/ ilen < blen)
                THEN TwoShortest(aps, i + 1, a, i)
           ELSE TwoShortest(aps, i + 1, a, b)

\* engini: mat[dlen .. 2*dlen-1], the contribution of each bit of Init:
\* mat[dlen] is the contribution of the bottom bit, each next entry the
\* one before multiplied by x modulo the divisor.
RECURSIVE InitPowers(_, _, _)
InitPowers(divisor, first, n) ==
  IF n = 1 THEN <<first>>
  ELSE LET rest == InitPowers(divisor, first, n - 1)
       IN  Append(rest, pcrc(<<0>>, divisor, rest[n - 1], pzero, {"MULXN"}))

\* engini: row i of the transposed matrix, augmented with bit i of the
\* actual Init contribution bpoly when the row is nonzero.  pw[k] is
\* mat[dlen + k - 1].
MatRow(pw, bpoly, i, dlen) ==
  LET row == [j \in 1..(dlen + 1) |->
                  IF j <= dlen THEN pw[dlen + 1 - j][i + 1] ELSE 0]
  IN  IF ptst(row) THEN [row EXCEPT ![dlen + 1] = bpoly[i + 1]] ELSE row

\* engini: the inner reduction loop of one row against mat[0 .. dlen-1].
RECURSIVE ReduceRow(_, _, _)
ReduceRow(mat, apoly, dlen) ==
  LET j == pfirst(apoly)
  IN  IF j < dlen /\ mat[j] # pzero
      THEN ReduceRow(mat, psum(apoly, mat[j], 0), dlen)
      ELSE apoly

\* engini: rows i .. dlen-1 are transposed, reduced and stored.
RECURSIVE Echelon(_, _, _, _, _)
Echelon(mat, pw, bpoly, i, dlen) ==
  IF i >= dlen THEN mat
  ELSE LET red == ReduceRow(mat, MatRow(pw, bpoly, i, dlen), dlen)
           j     == pfirst(red)
       IN  Echelon(IF j < dlen THEN [mat EXCEPT ![j] = red] ELSE mat,
                   pw, bpoly, i + 1, dlen)

\* engini: the inner reduction loop as an if: one XOR at most.
ReduceStepsOnce(mat, apoly, dlen) ==
  LET j == pfirst(apoly)
  IN  IF j < dlen /\ mat[j] # pzero
      THEN <<apoly, psum(apoly, mat[j], 0)>>
      ELSE <<apoly>>

\* engini: the working row apoly each time the condition of the inner
\* reduction loop is evaluated: the row as transposed first, the row the
\* loop leaves last.
RECURSIVE ReduceSteps(_, _, _)
ReduceSteps(mat, apoly, dlen) ==
  LET j == pfirst(apoly)
  IN  IF j < dlen /\ mat[j] # pzero
      THEN <<apoly>> \o ReduceSteps(mat, psum(apoly, mat[j], 0), dlen)
      ELSE <<apoly>>

\* engini: one entry per pass of the outer loop of the row reduction, from
\* row i: the matrix before the pass, the working rows of its inner loop,
\* the matrix after it, and whether the row was stored.
RECURSIVE EchelonSteps(_, _, _, _, _)
EchelonSteps(mat, pw, bpoly, i, dlen) ==
  IF i >= dlen THEN << >>
  ELSE LET rows   == ReduceSteps(mat, MatRow(pw, bpoly, i, dlen), dlen)
           red    == rows[Len(rows)]
           j      == pfirst(red)
           stored == j < dlen
           after  == IF stored THEN [mat EXCEPT ![j] = red] ELSE mat
       IN  <<[before |-> mat, rows |-> rows, after |-> after,
              stored |-> stored]>>
           \o EchelonSteps(after, pw, bpoly, i + 1, dlen)

\* engini: one pass of the for loop of the solution iteration, from loop
\* index i.  st is [apoly, mat, cy]; bone is bpoly, the row that marks a
\* free bit of Init set to one.
RECURSIVE SolvePass(_, _, _, _, _)
SolvePass(st, bone, flags, i, dlen) ==
  IF i >= dlen THEN st
  ELSE LET j   == dlen - 1 - i
           row == st.mat[j]
           ap  == IF pmpar(st.apoly, row) = 1
                  THEN psum(st.apoly, <<1>>, j) ELSE st.apoly
           nxt == IF st.cy /\ row = pzero
                  THEN [apoly |-> ap, mat |-> [st.mat EXCEPT ![j] = bone],
                        cy |-> "EXHST" \in flags]
                  ELSE IF st.cy /\ row = bone
                  THEN [apoly |-> ap, mat |-> [st.mat EXCEPT ![j] = pzero],
                        cy |-> TRUE]
                  ELSE [apoly |-> ap, mat |-> st.mat, cy |-> st.cy]
       IN  SolvePass(nxt, bone, flags, i + 1, dlen)

\* engini: the first solution only.
SolutionsOnce(cx, mat, divisor, flags, aps) ==
  LET dl   == Len(divisor)
      one  == psum(palloc(dl + 1), <<1>>, dl)
      pass == SolvePass([apoly |-> one, mat |-> mat, cy |-> TRUE],
                        one, flags, 0, dl)
  IN  calout(cx, divisor, praloc(pass.apoly, dl), flags, aps)

\* engini: the loop left after its first pass.
SolvePassesFirst(mat, bone, flags, dlen) ==
  <<SolvePass([apoly |-> bone, mat |-> mat, cy |-> TRUE], bone, flags, 0, dlen)>>

\* engini: the passes of the do-while loop over the solutions, each as
\* SolvePass leaves it; the loop ends after the pass that leaves cy set.
RECURSIVE SolvePasses(_, _, _, _)
SolvePasses(mat, bone, flags, dlen) ==
  LET swept == SolvePass([apoly |-> bone, mat |-> mat, cy |-> TRUE],
                         bone, flags, 0, dlen)
  IN  IF swept.cy THEN <<swept>>
      ELSE <<swept>> \o SolvePasses(swept.mat, bone, flags, dlen)

\* engini: calout() at the end of each pass, with the Init it has left.
RECURSIVE CalPasses(_, _, _, _, _, _)
CalPasses(cx, passes, k, divisor, flags, aps) ==
  IF k > Len(passes) THEN cx
  ELSE CalPasses(calout(cx, divisor, praloc(passes[k].apoly, Len(divisor)),
                        flags, aps),
                 passes, k + 1, divisor, flags, aps)

\* engini: the do-while loop over all solutions.
Solutions(cx, mat, divisor, flags, aps) ==
  LET dl == Len(divisor)
      one == psum(palloc(dl + 1), <<1>>, dl)
  IN  CalPasses(cx, SolvePasses(mat, one, flags, dl), 1, divisor, flags, aps)

\* engini: the two things the row reduction works from: pows, the
\* contribution of each bit of Init (mat[dlen .. 2*dlen-1]), and bcrc, the
\* actual contribution of Init (bpoly).
InitContrib(divisor, aps) ==
  LET dl == Len(divisor)
      ab   == TwoShortest(aps, 2, 1, 1)
      aptr == ab[1]
      bptr == ab[2]
      alen == Len(aps[aptr])
      blen == Len(aps[bptr])
      pot  == IF blen < 2 * dl
              THEN psum(psum(palloc(dl), <<1>>, 2 * dl - 1 - blen),
                        <<1>>, 2 * dl - 1 - alen)
              ELSE psum(psum(palloc(blen - dl + 1), <<1>>, 0),
                        <<1>>, blen - alen)
      m0   == IF Len(pot) > dl THEN pcrc(pot, divisor, pzero, pzero, {}) ELSE pot
      acrc == pcrc(aps[aptr], divisor, pzero, pzero, {})
  IN  [pows |-> InitPowers(divisor, m0, dl),
       bcrc |-> pcrc(aps[bptr], divisor, pzero, acrc, {})]

\* engini: the matrix after the row reduction, mat[0 .. dlen-1].
EnginiMat(divisor, aps) ==
  LET dl == Len(divisor)
      contrib == InitContrib(divisor, aps)
  IN  Echelon([j \in 0..(dl - 1) |-> pzero], contrib.pows, contrib.bcrc, 0, dl)

\* With no sample, engini still reads argpolys[0]: whatever it reads, no
\* loop runs, aptr = bptr, and calini returns at once.
engini(cx, divisor, flags, aps) ==
  LET dl == Len(divisor)
      ab   == TwoShortest(aps, 2, 1, 1)
      aptr == ab[1]
      bptr == ab[2]
      c1   == [cx EXCEPT !.reads = @ \cup (0..(Len(aps) - 1)) \cup {0}]
  IN  IF Len(aps) = 0 THEN c1
      ELSE IF aptr = bptr
      THEN calini(c1, divisor, flags, palloc(dl), aps)
      ELSE Solutions(c1, EnginiMat(divisor, aps), divisor, flags, aps)

\* The record of one dispch() call: the strategy it calls, the divisor and
\* rflags it was given, and the number of chkres() calls made before it.
Dispatched(cx, strategy, divisor, rf) ==
  [cx EXCEPT !.disp = Append(@, [strategy |-> strategy, divisor |-> divisor,
                                 rf |-> rf, chk0 |-> Len(cx.chk)])]

\* dispch() testing R_HAVEX before R_HAVEI.
dispchXFirst(gs, cx, divisor, rf, aps) ==
  IF "HAVEI" \in rf /\ "HAVEX" \in rf
  THEN chkres(Dispatched(cx, "chkres", divisor, rf),
              divisor, gs.init, gs.flags, gs.xorout, aps)
  ELSE IF "HAVEX" \in rf /\ "HAVEQ" \notin rf
  THEN calini(Dispatched(cx, "calini", divisor, rf),
              divisor, gs.flags, gs.xorout, aps)
  ELSE IF "HAVEI" \in rf \/ "HAVEX" \in rf
  THEN calout(Dispatched(cx, "calout", divisor, rf),
              divisor, gs.init, gs.flags, aps)
  ELSE engini(Dispatched(cx, "engini", divisor, rf),
              divisor, gs.flags, aps)

dispch(gs, cx, divisor, rf, aps) ==
  IF "HAVEI" \in rf /\ "HAVEX" \in rf
  THEN chkres(Dispatched(cx, "chkres", divisor, rf),
              divisor, gs.init, gs.flags, gs.xorout, aps)
  ELSE IF "HAVEI" \in rf
  THEN calout(Dispatched(cx, "calout", divisor, rf),
              divisor, gs.init, gs.flags, aps)
  ELSE IF "HAVEX" \in rf
  THEN calini(Dispatched(cx, "calini", divisor, rf),
              divisor, gs.flags, gs.xorout, aps)
  ELSE engini(Dispatched(cx, "engini", divisor, rf),
              divisor, gs.flags, aps)

\* modpol summing no pair of equal length.
ModpolWorkUnequal(init, rf, aps, a, b) ==
  LET alen == Len(aps[a])
      blen == Len(aps[b])
  IN  IF "HAVEI" \in rf /\ alen < blen
      THEN psum(psum(psum(aps[b], aps[a], blen - alen), init, 0),
                init, blen - alen)
      ELSE IF "HAVEI" \in rf /\ alen > blen
      THEN psum(psum(psum(aps[a], aps[b], alen - blen), init, 0),
                init, alen - blen)
      ELSE pzero

\* modpol adding Init to the leftmost terms of the longer sample only.
ModpolWorkOneInit(init, rf, aps, a, b) ==
  LET alen == Len(aps[a])
      blen == Len(aps[b])
  IN  IF alen = blen THEN psum(aps[a], aps[b], 0)
      ELSE IF "HAVEI" \in rf /\ alen < blen
      THEN psum(psum(aps[b], aps[a], blen - alen), init, 0)
      ELSE IF "HAVEI" \in rf
      THEN psum(psum(aps[a], aps[b], alen - blen), init, 0)
      ELSE pzero

\* modpol: the difference of the samples at positions a < b.
ModpolWork(init, rf, aps, a, b) ==
  LET alen == Len(aps[a])
      blen == Len(aps[b])
  IN  IF alen = blen THEN psum(aps[a], aps[b], 0)
      ELSE IF "HAVEI" \in rf /\ alen < blen
      THEN psum(psum(psum(aps[b], aps[a], blen - alen), init, 0),
                init, blen - alen)
      ELSE IF "HAVEI" \in rf
      THEN psum(psum(psum(aps[a], aps[b], alen - blen), init, 0),
                init, alen - blen)
      ELSE pzero

\* modpol: the do-while loop that combines work with the running gcd.
RECURSIVE GcdLoop(_, _)
GcdLoop(gcd, work) ==
  LET long  == IF Len(gcd) < Len(work) THEN work ELSE gcd
      short == IF Len(gcd) < Len(work) THEN gcd ELSE work
      rem   == pnorm(pmod(long, short))
  IN  IF Len(rem) > 0 THEN GcdLoop(short, rem) ELSE short

\* modpol: the two nested loops, from the pair (a, b); nogcd is true until
\* the first nonzero difference has been copied to gcd.
RECURSIVE ModpolFrom(_, _, _, _, _, _, _)
ModpolFrom(init, rf, aps, a, b, gcd, nogcd) ==
  IF a > Len(aps) THEN gcd
  ELSE IF b > Len(aps)
  THEN ModpolFrom(init, rf, aps, a + 1, a + 2, gcd, nogcd)
  ELSE LET diff == pnorm(ModpolWork(init, rf, aps, a, b))
       IN  IF Len(diff) = 0
           THEN ModpolFrom(init, rf, aps, a, b + 1, gcd, nogcd)
           ELSE IF nogcd
           THEN ModpolFrom(init, rf, aps, a, b + 1, diff, FALSE)
           ELSE ModpolFrom(init, rf, aps, a, b + 1,
                           GcdLoop(gcd, diff), FALSE)

modpol(init, rf, aps) ==
  IF Len(aps) < 2 THEN pzero
  ELSE ModpolFrom(init, rf, aps, 1, 2, pzero, TRUE)

\* modpol: the indices of argpolys[] its two loops read: none with fewer
\* than two samples, otherwise aptr runs over all of them.
ModpolReads(aps) == IF Len(aps) < 2 THEN {} ELSE 0..(Len(aps) - 1)

(***************************************************************************)
(* reveng.c: reveng() as a state machine, with the callbacks ufound() and  *)
(* uprog() of cli.c.                                                       *)
(***************************************************************************)
mainvars == <<mpc, model, main_rflags, uflags, width, main_qpoly, apolys, main_pass,
              nopts, scan, revcalls, stdout, stderr, status>>

vars == <<guess, qpoly, rflags0, argpolys, pc, rflags, pwork, factor, qqpoly,
          gpoly, spin, seq, ctx, prog, errout, tested, path, ret, mainvars>>

inputs == <<guess, qpoly, rflags0, argpolys>>

\* The defaults of main(): model = MZERO, rflags = 0, uflags = 0, width = 0,
\* qpoly = PZERO.
MZERO == [spoly |-> pzero, init |-> pzero, flags |-> {"RTJUST", "MULXN"},
          xorout |-> pzero, check |-> pzero, magic |-> pzero, name |-> "NULL"]

Defaults ==
  /\ model = MZERO
  /\ main_rflags = {} /\ uflags = {}
  /\ width = 0
  /\ main_qpoly = pzero
  /\ apolys = << >>
  /\ main_pass = 0 /\ nopts = 0
  /\ scan = "none"
  /\ revcalls = << >> /\ stdout = << >> /\ stderr = << >>
  /\ status = "none"

\* a AND b of two naturals, bit by bit.
RECURSIVE BitAnd(_, _)
BitAnd(a, b) ==
  IF a = 0 \/ b = 0 THEN 0
  ELSE (a % 2) * (b % 2) + 2 * BitAnd(a \div 2, b \div 2)

Sentinel == [spoly |-> pzero, init |-> pzero, flags |-> {}, xorout |-> pzero,
             check |-> pzero, magic |-> pzero, name |-> "NULL"]

\* uprog() printing the first report too.
uprogAll(out, poly, flags, s) ==
  Append(out, [width |-> Len(poly), poly |-> poly,
               refin |-> "REFIN" \in flags, refout |-> "REFOUT" \in flags])

\* uprog() of cli.c: the first report (seq = 0) is suppressed.
uprog(out, poly, flags, s) ==
  IF s = 0 THEN out
  ELSE Append(out, [width |-> Len(poly), poly |-> poly,
                    refin |-> "REFIN" \in flags, refout |-> "REFOUT" \in flags])

\* The state on entry to reveng().
Entry ==
  /\ pc = "start"
  /\ rflags = rflags0
  /\ pwork = pzero /\ factor = pzero /\ qqpoly = pzero /\ gpoly = pzero
  /\ spin = 0 /\ seq = 0
  /\ ctx = ctx0
  /\ prog = << >> /\ errout = << >> /\ tested = << >>
  /\ path = "none"
  /\ ret = << >>

\* if(rflags & R_HAVEP) dispch(guess, ..., guess->spoly, ...)
KnownPoly ==
  /\ pc = "start"
  /\ "HAVEP" \in rflags
  /\ ctx' = dispch(guess, ctx, guess.spoly, rflags, argpolys)
  /\ pc' = "requit"
  /\ path' = "known"
  /\ UNCHANGED <<mainvars, inputs, rflags, pwork, factor, qqpoly, gpoly, spin, seq,
                 prog, errout, tested, ret>>

\* if(!plen(guess->spoly)) goto requit
ZeroWidth ==
  /\ pc = "start"
  /\ "HAVEP" \notin rflags
  /\ plen(guess.spoly) = 0
  /\ pc' = "requit"
  /\ path' = "zerowidth"
  /\ UNCHANGED <<mainvars, inputs, rflags, pwork, factor, qqpoly, gpoly, spin, seq, ctx,
                 prog, errout, tested, ret>>

\* pwork = modpol(guess->init, rflags, args, argpolys)
Gcd ==
  /\ pc = "start"
  /\ "HAVEP" \notin rflags
  /\ plen(guess.spoly) > 0
  /\ pwork' = modpol(guess.init, rflags, argpolys)
  /\ ctx' = [ctx EXCEPT !.reads = @ \cup ModpolReads(argpolys)]
  /\ pc' = "gcd"
  /\ UNCHANGED <<mainvars, inputs, rflags, factor, qqpoly, gpoly, spin, seq,
                 prog, errout, tested, path, ret>>

\* if(plen(pwork) < plen(guess->spoly) + 1UL) goto rpquit
TooShort ==
  /\ pc = "gcd"
  /\ plen(pwork) < plen(guess.spoly) + 1
  /\ pc' = "requit"
  /\ path' = "tooshort"
  /\ UNCHANGED <<mainvars, inputs, rflags, pwork, factor, qqpoly, gpoly, spin, seq, ctx,
                 prog, errout, tested, ret>>

\* else if(plen(pwork) == plen(guess->spoly) + 1UL): the GCD, chopped, is
\* the generator.
UniqueGcd ==
  /\ pc = "gcd"
  /\ plen(pwork) = plen(guess.spoly) + 1
  /\ LET g == pshift(pwork, 1, plen(pwork), 0)
     IN  ctx' = dispch(guess, ctx, g, rflags, argpolys)
  /\ pc' = "requit"
  /\ path' = "unique"
  /\ UNCHANGED <<mainvars, inputs, rflags, pwork, factor, qqpoly, gpoly, spin, seq,
                 prog, errout, tested, ret>>

\* The set-up that trusts the caller's SHORT bit in a full enumeration.
SetupKeepShort(spoly, q, rf, work) ==
  LET fac0  == spoly
      qq0   == IF "HAVEQ" \in rf THEN q ELSE pzero
      rf0   == rf
      short == plen(work) <= 2 * plen(fac0)
      r     == plen(work) - plen(fac0) - 1
      check == short /\ ("HAVEQ" \in rf0 \/ ptst(fac0))
      rem   == pright(pinv(palloc(r)), plen(fac0))
      abort == check /\ pcmp(rem, fac0) < 0
      dropq == check /\ ~abort /\ pcmp(rem, qq0) < 0
      rf1   == (IF short THEN rf0 \cup {"SHORT"} ELSE rf0)
               \ (IF dropq THEN {"HAVEQ"} ELSE {})
      qq1   == IF check /\ ~abort /\ ~dropq /\ "HAVEQ" \in rf0
               THEN pright(qq0, r) ELSE qq0
      fac1  == IF short THEN pright(fac0, r) ELSE fac0
  IN  [abort |-> abort, rflags |-> rf1, qqpoly |-> qq1,
       factor |-> IF abort THEN fac0
                  ELSE pshift(fac1, 0, plen(fac1) - 1, 1)]

\* The set-up without the test of the start poly against the range.
SetupNoAbort(spoly, q, rf, work) ==
  LET fac0  == spoly
      qq0   == IF "HAVEQ" \in rf THEN q ELSE pzero
      rf0   == rf \ {"SHORT"}
      short == plen(work) <= 2 * plen(fac0)
      r     == plen(work) - plen(fac0) - 1
      check == short /\ ("HAVEQ" \in rf0 \/ ptst(fac0))
      rem   == pright(pinv(palloc(r)), plen(fac0))
      abort == FALSE
      dropq == check /\ ~abort /\ pcmp(rem, qq0) < 0
      rf1   == (IF short THEN rf0 \cup {"SHORT"} ELSE rf0)
               \ (IF dropq THEN {"HAVEQ"} ELSE {})
      qq1   == IF check /\ ~abort /\ ~dropq /\ "HAVEQ" \in rf0
               THEN pright(qq0, r) ELSE qq0
      fac1  == IF short THEN pright(fac0, r) ELSE fac0
  IN  [abort |-> abort, rflags |-> rf1, qqpoly |-> qq1,
       factor |-> IF abort THEN fac0
                  ELSE pshift(fac1, 0, plen(fac1) - 1, 1)]

\* The set-up of the trial factor and of the range end, lines 106-146:
\* [abort, rflags, factor, qqpoly].
Setup(spoly, q, rf, work) ==
  LET fac0  == spoly
      qq0   == IF "HAVEQ" \in rf THEN q ELSE pzero
      rf0   == rf \ {"SHORT"}
      short == plen(work) <= 2 * plen(fac0)
      r     == plen(work) - plen(fac0) - 1
      check == short /\ ("HAVEQ" \in rf0 \/ ptst(fac0))
      rem   == pright(pinv(palloc(r)), plen(fac0))
      abort == check /\ pcmp(rem, fac0) < 0
      dropq == check /\ ~abort /\ pcmp(rem, qq0) < 0
      rf1   == (IF short THEN rf0 \cup {"SHORT"} ELSE rf0)
               \ (IF dropq THEN {"HAVEQ"} ELSE {})
      qq1   == IF check /\ ~abort /\ ~dropq /\ "HAVEQ" \in rf0
               THEN pright(qq0, r) ELSE qq0
      fac1  == IF short THEN pright(fac0, r) ELSE fac0
  IN  [abort |-> abort, rflags |-> rf1, qqpoly |-> qq1,
       factor |-> IF abort THEN fac0
                  ELSE pshift(fac1, 0, plen(fac1) - 1, 1)]

\* Short mode, start polynomial out of range: goto rpquit.
SetupAbort ==
  /\ pc = "gcd"
  /\ plen(pwork) > plen(guess.spoly) + 1
  /\ Setup(guess.spoly, qpoly, rflags, pwork).abort
  /\ rflags' = Setup(guess.spoly, qpoly, rflags, pwork).rflags
  /\ pc' = "requit"
  /\ path' = "abort"
  /\ UNCHANGED <<mainvars, inputs, pwork, factor, qqpoly, gpoly, spin, seq, ctx,
                 prog, errout, tested, ret>>

SetupLoop ==
  /\ pc = "gcd"
  /\ plen(pwork) > plen(guess.spoly) + 1
  /\ LET su == Setup(guess.spoly, qpoly, rflags, pwork)
     IN  /\ ~su.abort
         /\ rflags' = su.rflags
         /\ factor' = su.factor
         /\ qqpoly' = su.qqpoly
  /\ pc' = "loop"
  /\ UNCHANGED <<mainvars, inputs, pwork, gpoly, spin, seq, ctx,
                 prog, errout, tested, path, ret>>

\* The loop condition without the range end.
LoopCondOpen(f, rf, qq) == ptst(f)

\* The loop condition: piter(&factor) && (~rflags & R_HAVEQ ||
\* pcmp(&factor, &qqpoly) < 0), on the factor piter has stepped.
LoopCond(f, rf, qq) ==
  ptst(f) /\ ("HAVEQ" \notin rf \/ pcmp(f, qq) < 0)

\* The loop condition fails: the enumeration is finished.
LoopExit ==
  /\ pc = "loop"
  /\ ~LoopCond(piter(factor), rflags, qqpoly)
  /\ factor' = piter(factor)
  /\ pc' = "requit"
  /\ path' = "enum"
  /\ UNCHANGED <<mainvars, inputs, rflags, pwork, qqpoly, gpoly, spin, seq, ctx, prog, errout, tested, ret>>

\* Short mode: the quotient chopped, its +1 term left clear.
ShortGenEven(work, f) ==
  LET quo == pcrcQuot(work, f, pzero, pzero, {})
  IN  pshift(quo, 1, plen(quo) - 1, 1)

\* Short mode: the generator from the quotient of the GCD by the factor,
\* chopped and with its +1 term set.
ShortGen(work, f) ==
  LET quo == pcrcQuot(work, f, pzero, pzero, {})
  IN  piter(pshift(quo, 1, plen(quo) - 1, 1))

\* One pass of the loop body without the piter() that ends it.
LoopBodyOnce ==
  /\ pc = "loop"
  /\ LET f1   == piter(factor)
         rem == pcrc(pwork, f1, pzero, pzero, {})
         g   == IF "SHORT" \in rflags /\ ~ptst(rem) THEN ShortGen(pwork, f1)
                ELSE gpoly
         rep == BitAnd(spin, R_SPMASK) = 0
     IN  /\ LoopCond(f1, rflags, qqpoly)
         /\ tested' = Append(tested, f1)
         /\ spin' = spin + 1
         /\ seq' = IF rep THEN seq + 1 ELSE seq
         /\ prog' = IF rep THEN Append(prog, [poly |-> f1, flags |-> guess.flags,
                                              seq |-> seq, before |-> Len(tested)])
                    ELSE prog
         /\ errout' = IF rep THEN uprog(errout, f1, guess.flags, seq) ELSE errout
         /\ gpoly' = g
         /\ ctx' = IF ~ptst(rem)
                   THEN dispch(guess, ctx, IF "SHORT" \in rflags THEN g ELSE f1,
                               rflags, argpolys)
                   ELSE ctx
         /\ factor' = f1
         /\ pc' = "loop"
         /\ path' = path
  /\ UNCHANGED <<mainvars, inputs, rflags, pwork, qqpoly, ret>>

\* One pass of the loop body, and the piter() that ends it.
LoopBody ==
  /\ pc = "loop"
  /\ LET f1   == piter(factor)
         rem == pcrc(pwork, f1, pzero, pzero, {})
         g   == IF "SHORT" \in rflags /\ ~ptst(rem) THEN ShortGen(pwork, f1)
                ELSE gpoly
         rep == BitAnd(spin, R_SPMASK) = 0
         f2  == piter(f1)
     IN  /\ LoopCond(f1, rflags, qqpoly)
         /\ tested' = Append(tested, f1)
         /\ spin' = spin + 1
         /\ seq' = IF rep THEN seq + 1 ELSE seq
         /\ prog' = IF rep THEN Append(prog, [poly |-> f1, flags |-> guess.flags,
                                              seq |-> seq, before |-> Len(tested)])
                    ELSE prog
         /\ errout' = IF rep THEN uprog(errout, f1, guess.flags, seq) ELSE errout
         /\ gpoly' = g
         /\ ctx' = IF ~ptst(rem)
                   THEN dispch(guess, ctx, IF "SHORT" \in rflags THEN g ELSE f1,
                               rflags, argpolys)
                   ELSE ctx
         /\ factor' = f2
         /\ pc' = IF ptst(f2) THEN "loop" ELSE "requit"
         /\ path' = IF ptst(f2) THEN path ELSE "enum"
  /\ UNCHANGED <<mainvars, inputs, rflags, pwork, qqpoly, ret>>

\* requit without the terminating entry.
RequitBare ==
  /\ pc = "requit"
  /\ ret' = ctx.result
  /\ pc' = "done"
  /\ UNCHANGED <<mainvars, inputs, rflags, pwork, factor, qqpoly, gpoly, spin, seq, ctx,
                 prog, errout, tested, path>>

\* requit: the terminating entry is appended and the array returned.
Requit ==
  /\ pc = "requit"
  /\ ret' = Append(ctx.result, Sentinel)
  /\ pc' = "done"
  /\ UNCHANGED <<mainvars, inputs, rflags, pwork, factor, qqpoly, gpoly, spin, seq, ctx,
                 prog, errout, tested, path>>

(***************************************************************************)
(* The calls of reveng() that are checked.                                 *)
(***************************************************************************)
\* All sequences of at most n elements of S.
RECURSIVE SeqsUpTo(_, _)
SeqsUpTo(S, n) ==
  IF n = 0 THEN {<< >>}
  ELSE LET shorter == SeqsUpTo(S, n - 1)
       IN  shorter \cup {Append(q, x) : q \in {t \in shorter : Len(t) = n - 1}, x \in S}

\* Samples of a width: message bits followed by width CRC bits.
Samples(w, extra) == UNION {BitStrings(n) : n \in w..(w + extra)}

\* The rflags bits for the parameters given.
Have(hp, hi, hx, hq) ==
  (IF hp THEN {"HAVEP"} ELSE {}) \cup (IF hi THEN {"HAVEI"} ELSE {})
  \cup (IF hx THEN {"HAVEX"} ELSE {}) \cup (IF hq THEN {"HAVEQ"} ELSE {})

\* The flags main() can leave in the model when it calls reveng(): MULXN
\* is set, REFIN and REFOUT agree.  EXHST is read by engini() only, which
\* runs when neither Init nor XorOut is given.
ModelFlags(hi, hx) ==
  {{"MULXN"} \cup r \cup e :
     r \in {{}, {"REFIN", "REFOUT"}},
     e \in IF hi \/ hx THEN {{}} ELSE {{}, {"EXHST"}}}

\* A parameter main() was given (any value of the width) or was not given
\* (all zero).
Param(have, w) == IF have THEN BitStrings(w) ELSE {palloc(w)}

\* A given parameter in the searches: all zeros or all ones.
EndParam(have, w) == IF have THEN {palloc(w), pinv(palloc(w))} ELSE {palloc(w)}

\* Start polys of a search: zero, or the top term alone.
StartPolys(w) == {palloc(w), pinv(palloc(1)) \o palloc(w - 1)}

\* Range end polys of a search: one, or the top term alone.
EndPolys(w) == {pright(pinv(palloc(1)), w), pinv(palloc(1)) \o palloc(w - 1)}

\* Differences of two samples of length n that leave a GCD of len terms
\* or more.
LongDiffs(n, terms) == {d \in BitStrings(n) : Len(pnorm(d)) >= terms}

Call(spoly, init, xorout, flags, q, rf, aps) ==
  /\ guess = [spoly |-> spoly, init |-> init, xorout |-> xorout, flags |-> flags]
  /\ qpoly = q
  /\ rflags0 = rf
  /\ argpolys = aps
  /\ Entry
  /\ mpc = "library"
  /\ Defaults

\* The poly is known: every poly, Init and XorOut of the width, every list
\* of short samples.
InitKnown ==
  \E w \in 1..MaxWidth, hi \in BOOLEAN, hx \in BOOLEAN :
    \E sp \in BitStrings(w), ini \in Param(hi, w), xo \in Param(hx, w),
       fl \in ModelFlags(hi, hx),
       aps \in SeqsUpTo(Samples(w, ShortExtra), MaxArgs) :
      Call(sp, ini, xo, fl, palloc(w), Have(TRUE, hi, hx, FALSE), aps)

\* A start poly of no terms.
InitZeroWidth ==
  \E hi \in BOOLEAN, hx \in BOOLEAN, hq \in BOOLEAN :
    \E fl \in ModelFlags(TRUE, TRUE),
       aps \in SeqsUpTo(Samples(0, ShortExtra), MaxArgs) :
      Call(pzero, pzero, pzero, fl, pzero, Have(FALSE, hi, hx, hq), aps)

\* A search over lists of short samples: the GCD has at most width + 1
\* terms.
InitShortSearch ==
  \E w \in 1..MaxWidth, hi \in BOOLEAN, hx \in BOOLEAN, hq \in BOOLEAN :
    \E sp \in StartPolys(w), ini \in EndParam(hi, w), xo \in EndParam(hx, w),
       fl \in ModelFlags(hi, hx),
       q \in (IF hq THEN EndPolys(w) ELSE {palloc(w)}),
       aps \in SeqsUpTo(Samples(w, ShortExtra), MaxArgs) :
      Call(sp, ini, xo, fl, q,
           Have(FALSE, hi, hx, hq)
             \cup (IF hq THEN {"SHORT", "HAVERI", "HAVERO"} ELSE {}),
           aps)

\* A search over two samples of width + LongExtra bits whose difference
\* has width + 2 terms or more: the trial factors are enumerated, in short
\* mode or in full.
InitEnum ==
  \E w \in 2..MaxWidth, hi \in BOOLEAN, hx \in BOOLEAN, hq \in BOOLEAN :
    \E sp \in (IF hi \/ hx THEN {palloc(w)} ELSE StartPolys(w)),
       ini \in EndParam(hi, w), xo \in EndParam(hx, w),
       fl \in ModelFlags(TRUE, TRUE),
       q \in (IF hq THEN EndPolys(w) ELSE {palloc(w)}),
       a \in BitStrings(w + LongExtra),
       d \in LongDiffs(w + LongExtra, w + 2) :
      /\ (hi \/ hx) => ~hq
      /\ Call(sp, ini, xo, fl, q,
              Have(FALSE, hi, hx, hq)
                \cup (IF hq THEN {"SHORT", "HAVERI", "HAVERO"} ELSE {}),
              <<a, psum(a, d, 0)>>)

\* The same with a third, shorter sample: engini() solves for Init.
InitEnumInit ==
  \E w \in 2..MaxWidth :
    \E e \in {{}, {"EXHST"}},
       a \in BitStrings(w + LongExtra),
       d \in LongDiffs(w + LongExtra, w + 2),
       t \in Samples(w, ShortExtra) :
      Call(palloc(w), palloc(w), palloc(w), {"MULXN"} \cup e, palloc(w), {},
           <<a, psum(a, d, 0), t>>)

\* A search of the next width over two samples whose difference has more
\* than twice the width in terms: full enumeration, four trial factors and
\* more.
InitProgress ==
  \E a \in BitStrings(2 * ProgWidth + 1),
     d \in LongDiffs(2 * ProgWidth + 1, 2 * ProgWidth + 1) :
    Call(palloc(ProgWidth), palloc(ProgWidth), palloc(ProgWidth), {"MULXN"},
         palloc(ProgWidth), {}, <<a, psum(a, d, 0)>>)

\* A search in short mode with trial factors of two bits and more: a zero
\* sample and a sample that is the GCD, of more than ShortWidth + 2 and at
\* most twice ShortWidth terms; Init and XorOut known to be zero, or not
\* known.
InitShortOrder ==
  \E known \in BOOLEAN, n \in (ShortWidth + 3)..(2 * ShortWidth) :
    \E d \in LongDiffs(n, n) :
      Call(palloc(ShortWidth), palloc(ShortWidth), palloc(ShortWidth), {"MULXN"},
           palloc(ShortWidth), Have(FALSE, known, known, FALSE), <<palloc(n), d>>)

\* Two differences of n terms: all the terms, and the two end terms.
RangeDiffs(n) == {pinv(palloc(n)), <<1>> \o palloc(n - 2) \o <<1>>}

\* A search in short mode over a range: every start poly and every range
\* end of ShortWidth bits, a zero sample and a sample that is the GCD, of
\* ShortWidth + 2 to twice ShortWidth terms; Init and XorOut known to be
\* zero.
InitShortRange ==
  \E hq \in BOOLEAN, n \in (ShortWidth + 2)..(2 * ShortWidth) :
    \E sp \in BitStrings(ShortWidth),
       q \in (IF hq THEN BitStrings(ShortWidth) ELSE {palloc(ShortWidth)}),
       d \in RangeDiffs(n) :
      Call(sp, palloc(ShortWidth), palloc(ShortWidth), {"MULXN"},
           q, Have(FALSE, TRUE, TRUE, hq), <<palloc(n), d>>)

\* A full enumeration over a range: every start poly and every range end of
\* ProgWidth bits, a zero sample and a sample that is the GCD, of twice
\* ProgWidth terms and one; Init and XorOut known to be zero.
InitFullRange ==
  \E hq \in BOOLEAN :
    \E sp \in BitStrings(ProgWidth),
       q \in (IF hq THEN BitStrings(ProgWidth) ELSE {palloc(ProgWidth)}),
       d \in RangeDiffs(2 * ProgWidth + 1) :
      Call(sp, palloc(ProgWidth), palloc(ProgWidth), {"MULXN"},
           q, Have(FALSE, TRUE, TRUE, hq), <<palloc(2 * ProgWidth + 1), d>>)

\* The polys of a width with the +1 term.
OddPolys(w) == {p \in BitStrings(w) : p[w] = 1}

\* The poly is known and has its +1 term, Init and XorOut are not known:
\* every list of one to SelectArgs samples, each all zeros or all ones, of
\* the width and up to SelectExtra bits more.
InitSelect ==
  \E sp \in OddPolys(MaxWidth), fl \in ModelFlags(FALSE, FALSE),
     aps \in SeqsUpTo({s \in Samples(MaxWidth, SelectExtra) :
                         s \in {palloc(plen(s)), pinv(palloc(plen(s)))}},
                      SelectArgs) :
    /\ aps # << >>
    /\ Call(sp, palloc(MaxWidth), palloc(MaxWidth), fl, palloc(MaxWidth),
            Have(TRUE, FALSE, FALSE, FALSE), aps)

\* A sample: the message followed by its CRC under the Williams model
\* (poly, init, xorout) with RefIn and RefOut false.
Codeword(msg, poly, init, xorout) ==
  msg \o pcrc(msg, poly, init, xorout, {"MULXN"})

\* The lists of messages whose lengths are those of shape.
RECURSIVE MsgLists(_)
MsgLists(shape) ==
  IF shape = << >> THEN {<< >>}
  ELSE {Append(l, m) : l \in MsgLists(SubSeq(shape, 1, Len(shape) - 1)),
                       m \in BitStrings(shape[Len(shape)])}

\* The message lengths: all different, or the first two alike.
GenDistinct == [k \in 1..GenSamples |-> k]

GenPaired == [k \in 1..GenSamples |-> IF k <= 2 THEN GenSamples - 1 ELSE k - 2]

\* The message lengths: one shorter than the two others.
GenMixed == <<MixedLen - 1, MixedLen, MixedLen>>

\* A search over samples generated under one model, of any poly of the
\* width, with the Init of the model given or not given.
InitGenInit ==
  \E poly \in BitStrings(MaxWidth), init \in BitStrings(MaxWidth),
     xorout \in BitStrings(MaxWidth), hi \in BOOLEAN :
    \E msgs \in MsgLists(GenMixed) :
      Call(palloc(MaxWidth), IF hi THEN init ELSE palloc(MaxWidth),
           palloc(MaxWidth), {"MULXN"}, palloc(MaxWidth),
           Have(FALSE, hi, FALSE, FALSE),
           [k \in 1..Len(GenMixed) |-> Codeword(msgs[k], poly, init, xorout)])

\* The poly is known, Init and XorOut are not: every poly of ReduceWidth
\* bits, a sample of the width (all zeros or all ones) and a longer one,
\* of one bit more or of twice the width (its first half zero).
InitReduce ==
  \E sp \in BitStrings(ReduceWidth), e \in {{}, {"EXHST"}},
     s1 \in {palloc(ReduceWidth), pinv(palloc(ReduceWidth))},
     s2 \in BitStrings(ReduceWidth + 1)
            \cup {palloc(ReduceWidth) \o x : x \in BitStrings(ReduceWidth)} :
    Call(sp, palloc(ReduceWidth), palloc(ReduceWidth), {"MULXN"} \cup e,
         palloc(ReduceWidth), Have(TRUE, FALSE, FALSE, FALSE), <<s1, s2>>)

\* A search with nothing known over samples generated under one model.
InitGen ==
  \E poly \in OddPolys(MaxWidth), init \in BitStrings(MaxWidth),
     xorout \in BitStrings(MaxWidth), e \in {{}, {"EXHST"}},
     shape \in {GenDistinct, GenPaired} :
    /\ shape = GenDistinct => e = {}
    /\ \E msgs \in MsgLists(shape) :
         Call(palloc(MaxWidth), palloc(MaxWidth), palloc(MaxWidth),
              {"MULXN"} \cup e, palloc(MaxWidth), {},
              [k \in 1..GenSamples |-> Codeword(msgs[k], poly, init, xorout)])

Init ==
  \/ InitKnown
  \/ InitZeroWidth
  \/ InitShortSearch
  \/ InitEnum
  \/ InitEnumInit
  \/ InitProgress
  \/ InitShortOrder
  \/ InitShortRange
  \/ InitFullRange
  \/ InitSelect

Next ==
  \/ KnownPoly
  \/ ZeroWidth
  \/ Gcd
  \/ TooShort
  \/ UniqueGcd
  \/ SetupAbort
  \/ SetupLoop
  \/ LoopExit
  \/ LoopBody
  \/ Requit

Spec == Init /\ [][Next]_vars

\* reveng() is at a statement and executes it: the position changes, or
\* the loop counts a pass.
Running ==
  /\ pc # "done"
  /\ \E at \in {"gcd", "loop", "requit", "done"} : pc' = at
  /\ \E count \in {spin, spin + 1} : spin' = count

\* The steps of an enumeration of trial factors.  reveng() is sequential
\* code: while it has not returned its next statement is executed, which
\* is weak fairness of Running on the position and the pass count.
LoopNext ==
  \/ Gcd
  \/ SetupAbort
  \/ SetupLoop
  \/ LoopExit
  \/ LoopBody
  \/ Requit

SpecLoop ==
  /\ InitShortRange \/ InitFullRange
  /\ [][LoopNext]_vars
  /\ WF_<<pc, spin>>(Running)

\* The steps of a search with nothing known from an all-zero start poly.
GenNext ==
  \/ Gcd
  \/ TooShort
  \/ UniqueGcd
  \/ SetupLoop
  \/ LoopBody
  \/ Requit

SpecGen == InitGen /\ [][GenNext]_vars

\* The same steps over generated samples of two lengths, Init given or not.
SpecMixed == InitGenInit /\ [][GenNext]_vars

\* reveng() with the poly known: the strategy is dispatched and the result
\* returned.
KnownNext ==
  \/ KnownPoly
  \/ Requit

SpecReduce == InitReduce /\ [][KnownNext]_vars

(***************************************************************************)
(* cli.c: main() with the mode switch -s.  A hex string is the sequence of *)
(* the values of its digits.                                               *)
(***************************************************************************)
\* int ibperhx = 8
ibperhx == 8

RECSMP == 4

Endian == {"REFIN", "REFOUT"}

\* A toggle that flips REFIN alone.
FlipRefin(flags) == (flags \ {"REFIN"}) \cup ({"REFIN"} \ flags)

\* model.flags ^= P_REFIN | P_REFOUT
FlipEndian(flags) == (flags \ Endian) \cup (Endian \ flags)

\* The four bits of a hex digit, highest first.
Nibble(digit) == [i \in 1..4 |-> (digit \div (2 ^ (4 - i))) % 2]

RECURSIVE HexBits(_)
HexBits(str) ==
  IF str = << >> THEN pzero ELSE Nibble(Head(str)) \o HexBits(Tail(str))

\* prevch: every character of bperhx bits is reversed in place.
prevch(p, bperhx) ==
  [i \in 1..Len(p) |->
     LET chlo == ((i - 1) \div bperhx) * bperhx
         chhi == IF chlo + bperhx > Len(p) THEN Len(p) ELSE chlo + bperhx
     IN  p[chlo + chhi + 1 - i]]

\* strtop: the bits of the hex digits, every character reflected under
\* REFIN.  The strings read are whole characters.
strtop(str, flags, bperhx) ==
  IF "REFIN" \in flags THEN prevch(HexBits(str), bperhx) ELSE HexBits(str)

\* psncmp: pcmp with the shorter poly padded with zeroes.
psncmp(a, b) ==
  LET longer == IF plen(a) > plen(b) THEN plen(a) ELSE plen(b)
  IN  pcmp(praloc(a, longer), praloc(b, longer))

\* mnovel: the model no longer carries a catalog name.
mnovel(m) == [m EXCEPT !.name = "NULL"]

\* mrev: the reverse algorithm.  cli.c, lines 296-301: "mrev() does:
\* if(refout) prev(init); else prev(xorout)", Init and XorOut change
\* places, RefIn and RefOut are inverted.
mrev(m) ==
  LET ini == IF "REFOUT" \in m.flags THEN prev(m.init) ELSE m.init
      xo  == IF "REFOUT" \in m.flags THEN m.xorout ELSE prev(m.xorout)
  IN  mnovel([m EXCEPT !.spoly = prcp(m.spoly), !.init = xo, !.xorout = ini,
                       !.flags = FlipEndian(m.flags)])

\* The preset catalog, sorted by name: three of its models, one of them
\* crossed-endian.
Preset(name, digits, wid, init, refin, refout, xorout) ==
  mcheck([spoly  |-> pright(HexBits(digits), wid),
          init   |-> pright(HexBits(init), wid),
          flags  |-> {"MULXN"} \cup (IF refin THEN {"REFIN"} ELSE {})
                     \cup (IF refout THEN {"REFOUT"} ELSE {})
                     \cup (IF refin \/ refout THEN {} ELSE {"RTJUST"}),
          xorout |-> pright(HexBits(xorout), wid),
          check  |-> pzero, magic |-> pzero, name |-> name])

Presets ==
  << Preset("CRC-12/UMTS", <<8, 0, 15>>, 12, <<0>>, FALSE, TRUE, <<0>>),
     Preset("CRC-3/GSM", <<3>>, 3, <<0>>, FALSE, FALSE, <<7>>),
     Preset("CRC-3/ROHC", <<3>>, 3, <<7>>, TRUE, TRUE, <<0>>) >>

mcount == Len(Presets)

\* mbynum(&pset, num): model num of the catalog, counted from 0.
mbynum(num) == Presets[num + 1]

PresetNames == {Presets[k].name : k \in 1..mcount}

\* mbynam(&model, name), for a name of the catalog.
mbynam(name) == CHOOSE ps \in {Presets[k] : k \in 1..mcount} : ps.name = name

\* The option arguments and the sample lists tried.
WidthArgs == {<<2>>, <<3>>}

\* atol: the value of a string of decimal digits.
RECURSIVE atol(_)
atol(str) ==
  IF str = << >> THEN 0
  ELSE 10 * atol(SubSeq(str, 1, Len(str) - 1)) + str[Len(str)]

HexArgs == {<<3>>, <<6>>, <<7>>}

ArgLists ==
  { << >>,
    << <<0, 0>>, <<1, 1>> >>,
    << <<0, 0>>, <<0, 11>> >>,
    << <<0, 7>>, <<0, 12>> >>,
    << <<14, 0>>, <<5, 5>> >>,
    << <<0, 0, 0, 0>>, <<1, 0, 1, 14>> >> }

\* uerror(msg): the message is printed and the program exits with failure.
uerror(msg) ==
  /\ stderr' = Append(stderr, msg)
  /\ status' = "EXIT_FAILURE"
  /\ mpc' = "exit"

(***************************************************************************)
(* The options.                                                            *)
(***************************************************************************)
\* One main_pass of the getopt() loop that leaves the locals as given.
Getopt(md, rf, uf, wid, qp, er) ==
  /\ mpc = "getopt"
  /\ nopts < MaxOpts
  /\ nopts' = nopts + 1
  /\ model' = md
  /\ main_rflags' = rf
  /\ uflags' = uf
  /\ width' = wid
  /\ main_qpoly' = qp
  /\ stderr' = er
  /\ UNCHANGED <<mpc, apolys, main_pass, scan, revcalls, stdout, status,
                 inputs, pc, rflags, pwork, factor, qqpoly, gpoly, spin, seq,
                 ctx, prog, errout, tested, path, ret>>

\* case '1'
Opt_1 ==
  Getopt([model EXCEPT !.flags = @ \cup {"EXHST"}], main_rflags, uflags, width,
         main_qpoly, stderr)

\* case 'b', falling through 'B' and 'r'
Opt_b ==
  Getopt(mnovel([model EXCEPT !.flags = (@ \ {"REFIN", "REFOUT"}) \cup {"RTJUST"}]),
         main_rflags \cup {"HAVERI", "HAVERO"}, uflags, width, main_qpoly, stderr)

\* case 'B', falling through 'r'
Opt_B ==
  Getopt(mnovel([model EXCEPT !.flags = (@ \ {"REFOUT"}) \cup {"RTJUST"}]),
         main_rflags \cup {"HAVERO"}, uflags, width, main_qpoly, stderr)

\* case 'l', falling through 'L' and 't'
Opt_l ==
  Getopt(mnovel([model EXCEPT !.flags = (@ \cup {"REFIN", "REFOUT"}) \ {"RTJUST"}]),
         main_rflags \cup {"HAVERI", "HAVERO"}, uflags, width, main_qpoly, stderr)

\* case 'L', falling through 't'
Opt_L ==
  Getopt(mnovel([model EXCEPT !.flags = (@ \cup {"REFOUT"}) \ {"RTJUST"}]),
         main_rflags \cup {"HAVERO"}, uflags, width, main_qpoly, stderr)

\* case 'F'
Opt_F ==
  Getopt(model, main_rflags, uflags \cup {"C_NOPCK"}, width, main_qpoly, stderr)

\* case 'G'
Opt_G ==
  Getopt(model, main_rflags, uflags \cup {"C_NOBFS"}, width, main_qpoly, stderr)

\* case 'M'
Opt_M ==
  Getopt([model EXCEPT !.flags = @ \ {"MULXN"}], main_rflags, uflags, width,
         main_qpoly, stderr)

\* case 'V'
Opt_V ==
  Getopt(mrev(model), main_rflags, uflags, width, main_qpoly, stderr)

\* case 'w'
Opt_w ==
  \E optarg \in WidthArgs :
    Getopt(model, main_rflags, uflags, atol(optarg), main_qpoly, stderr)

\* case 'm'
Opt_m ==
  \E optarg \in PresetNames :
    Getopt(mbynam(optarg),
           main_rflags \cup {"HAVEP", "HAVEI", "HAVERI", "HAVERO", "HAVEX"},
           uflags, plen(mbynam(optarg).spoly), main_qpoly, stderr)

\* case 'i'
Opt_i ==
  \E optarg \in HexArgs :
    Getopt(mnovel([model EXCEPT !.init = strtop(optarg, {}, 4)]),
           main_rflags \cup {"HAVEI"}, uflags, width, main_qpoly, stderr)

\* case 'x'
Opt_x ==
  \E optarg \in HexArgs :
    Getopt(mnovel([model EXCEPT !.xorout = strtop(optarg, {}, 4)]),
           main_rflags \cup {"HAVEX"}, uflags, width, main_qpoly, stderr)

\* case 'p', with the warning for a poly without the +1 term
Opt_p ==
  \E optarg \in HexArgs :
    LET ppoly == strtop(optarg, {}, 4)
    IN  Getopt(mnovel([model EXCEPT !.spoly = ppoly]),
               (main_rflags \ {"HAVEQ"}) \cup {"HAVEP"}, uflags, width, main_qpoly,
               IF plen(ppoly) > 0 /\ ppoly[plen(ppoly)] = 0
               THEN Append(stderr, "warning: POLY has no +1 term")
               ELSE stderr)

\* case 'q'
Opt_q ==
  \E optarg \in HexArgs :
    Getopt(mnovel(model), (main_rflags \ {"HAVEP"}) \cup {"HAVEQ"}, uflags, width,
           strtop(optarg, {}, 4), stderr)

\* case -1: the parameters are expanded or trimmed, right-aligned, to the
\* width.
EndOptions ==
  /\ mpc = "getopt"
  /\ model' = [model EXCEPT !.spoly = pright(@, width),
                            !.init = pright(@, width),
                            !.xorout = pright(@, width)]
  /\ main_qpoly' = pright(main_qpoly, width)
  /\ mpc' = "mode"
  /\ UNCHANGED <<main_rflags, uflags, width, apolys, main_pass, nopts, scan, revcalls,
                 stdout, stderr, status,
                 inputs, pc, rflags, pwork, factor, qqpoly, gpoly, spin, seq,
                 ctx, prog, errout, tested, path, ret>>

(***************************************************************************)
(* case 's': search for algorithm.                                         *)
(***************************************************************************)
mainlocals == <<model, main_rflags, uflags, width, main_qpoly, apolys, main_pass,
                nopts, scan, revcalls, stdout>>

revengvars == <<inputs, pc, rflags, pwork, factor, qqpoly, gpoly, spin, seq,
                ctx, prog, errout, tested, path, ret>>

\* if(~model.flags & P_MULXN) uerror(...)
NonWilliams ==
  /\ mpc = "mode"
  /\ "MULXN" \notin model.flags
  /\ uerror("cannot search for non-Williams compliant models")
  /\ UNCHANGED <<mainlocals, revengvars>>

\* if(!width) uerror(...)
NoWidth ==
  /\ mpc = "mode"
  /\ "MULXN" \in model.flags
  /\ width = 0
  /\ uerror("must specify positive -k, -P or -w before -s")
  /\ UNCHANGED <<mainlocals, revengvars>>

\* The warnings for few samples.
FewSamples(args) ==
  IF args = 0 THEN <<"warning: you have not given any samples">>
  ELSE IF args < RECSMP
  THEN <<"warning: you have only given samples",
         "warning: to reduce false positives, give more samples">>
  ELSE << >>

\* Lines 390-427: the parameters are resized to the width, a zero qpoly
\* clears R_HAVEQ, the samples are read with the flags of the model.
ReadSamples ==
  /\ mpc = "mode"
  /\ "MULXN" \in model.flags
  /\ width > 0
  /\ \E argv \in ArgLists :
       LET sp == praloc(model.spoly, width)
       IN  /\ model' = [model EXCEPT
                          !.spoly = IF plen(sp) = 0 THEN palloc(width) ELSE sp,
                          !.init = praloc(@, width),
                          !.xorout = praloc(@, width)]
           /\ width' = IF plen(sp) = 0 THEN width ELSE plen(sp)
           /\ stderr' = stderr \o FewSamples(Len(argv))
           /\ apolys' = [k \in 1..Len(argv) |-> strtop(argv[k], model.flags, ibperhx)]
  /\ main_rflags' = IF ptst(main_qpoly) THEN main_rflags ELSE main_rflags \ {"HAVEQ"}
  /\ main_pass' = 0
  /\ mpc' = IF "C_NOPCK" \in uflags THEN "scanned" ELSE "presets"
  /\ scan' = IF "C_NOPCK" \in uflags THEN "skipped" ELSE scan
  /\ UNCHANGED <<uflags, main_qpoly, nopts, revcalls, stdout, status, revengvars>>

\* Lines 402-420 with no sample: malloc(0) may return a null pointer, and
\* main() then ends with an error.
NoArgMemory ==
  /\ mpc = "mode"
  /\ "MULXN" \in model.flags
  /\ width > 0
  /\ << >> \in ArgLists
  /\ LET sp == praloc(model.spoly, width)
     IN  /\ model' = [model EXCEPT
                        !.spoly = IF plen(sp) = 0 THEN palloc(width) ELSE sp,
                        !.init = praloc(@, width),
                        !.xorout = praloc(@, width)]
         /\ width' = IF plen(sp) = 0 THEN width ELSE plen(sp)
  /\ main_rflags' = IF ptst(main_qpoly) THEN main_rflags ELSE main_rflags \ {"HAVEQ"}
  /\ stderr' = stderr \o FewSamples(0)
                \o <<"cannot allocate memory for argument list">>
  /\ status' = "EXIT_FAILURE"
  /\ mpc' = "exit"
  /\ UNCHANGED <<uflags, main_qpoly, apolys, main_pass, nopts, scan, revcalls,
                 stdout, revengvars>>

\* Lines 444-465: the preset is of the width and the endianness of the model,
\* agrees with the parameters given and solves all samples.
Solves(ps, md, rf, wid, aps) ==
  /\ plen(ps.spoly) = wid
  /\ (md.flags \cap Endian) = (ps.flags \cap Endian)
  /\ "HAVEP" \in rf => pcmp(md.spoly, ps.spoly) = 0
  /\ "HAVEI" \in rf => psncmp(md.init, ps.init) = 0
  /\ "HAVEX" \in rf => psncmp(md.xorout, ps.xorout) = 0
  /\ \A k \in 1..Len(aps) :
       ~ptst(pcrc(aps[k], ps.spoly, ps.init,
                  IF "REFOUT" \in ps.flags THEN prev(ps.xorout) ELSE ps.xorout, {}))

\* while(psets) { mbynum(&pset, --psets); ... }: the presets that solve all
\* samples, in the order they are reported.
RECURSIVE ScanPresets(_, _, _, _, _)
ScanPresets(psets, md, rf, wid, aps) ==
  IF psets = 0 THEN << >>
  ELSE (IF Solves(mbynum(psets - 1), md, rf, wid, aps)
        THEN <<mbynum(psets - 1)>> ELSE << >>)
       \o ScanPresets(psets - 1, md, rf, wid, aps)

\* One main_pass of the scan against the preset models, lines 439-479.
PresetPass ==
  /\ mpc = "presets"
  /\ LET solved == ScanPresets(mcount, model, main_rflags, width, apolys)
     IN  /\ stdout' = stdout \o solved
         /\ uflags' = IF solved # << >> THEN uflags \cup {"C_RESULT"} ELSE uflags
  /\ IF "HAVERI" \notin main_rflags
     THEN /\ model' = [model EXCEPT !.flags = FlipEndian(@)]
          /\ apolys' = [k \in 1..Len(apolys) |-> prevch(apolys[k], ibperhx)]
          /\ main_pass' = main_pass + 1
     ELSE UNCHANGED <<model, apolys, main_pass>>
  /\ IF "HAVERI" \notin main_rflags /\ main_pass + 1 < 2
     THEN UNCHANGED <<mpc, scan>>
     ELSE mpc' = "scanned" /\ scan' = "done"
  /\ UNCHANGED <<main_rflags, width, main_qpoly, nopts, revcalls, stderr, status,
                 revengvars>>

\* if(uflags & C_RESULT) exit(EXIT_SUCCESS)
PresetExit ==
  /\ mpc = "scanned"
  /\ "C_RESULT" \in uflags
  /\ status' = "EXIT_SUCCESS"
  /\ mpc' = "exit"
  /\ UNCHANGED <<mainlocals, stderr, revengvars>>

\* if(uflags & C_NOBFS && ~rflags & R_HAVEP) uerror("no models found")
NoBruteForce ==
  /\ mpc = "scanned"
  /\ "C_RESULT" \notin uflags
  /\ "C_NOBFS" \in uflags /\ "HAVEP" \notin main_rflags
  /\ uerror("no models found")
  /\ UNCHANGED <<mainlocals, revengvars>>

\* The brute force main_pass is reached.
Searching ==
  /\ "C_RESULT" \notin uflags
  /\ ~("C_NOBFS" \in uflags /\ "HAVEP" \notin main_rflags)

\* if(!(model.flags & P_REFIN) != !(model.flags & P_REFOUT)) uerror(...)
CrossedEndian ==
  /\ mpc = "scanned"
  /\ Searching
  /\ ("REFIN" \in model.flags) # ("REFOUT" \in model.flags)
  /\ uerror("cannot search for crossed-endian models")
  /\ UNCHANGED <<mainlocals, revengvars>>

\* candmods = reveng(&model, qpoly, rflags, args, apolys), first after the
\* checks with main_pass = 0, then in the second main_pass.
CallReveng ==
  /\ \/ /\ mpc = "scanned"
        /\ Searching
        /\ ("REFIN" \in model.flags) = ("REFOUT" \in model.flags)
        /\ main_pass' = 0
        /\ revcalls' = Append(revcalls, [pass |-> 0, flags |-> model.flags])
     \/ /\ mpc = "again"
        /\ main_pass' = main_pass
        /\ revcalls' = Append(revcalls, [pass |-> main_pass, flags |-> model.flags])
  /\ mpc' = "reveng"
  /\ guess' = [spoly |-> model.spoly, init |-> model.init,
               xorout |-> model.xorout, flags |-> model.flags]
  /\ qpoly' = main_qpoly
  /\ rflags0' = main_rflags
  /\ argpolys' = apolys
  /\ pc' = "start"
  /\ rflags' = main_rflags
  /\ pwork' = pzero /\ factor' = pzero /\ qqpoly' = pzero /\ gpoly' = pzero
  /\ spin' = 0 /\ seq' = 0
  /\ ctx' = ctx0
  /\ prog' = << >> /\ errout' = << >> /\ tested' = << >>
  /\ path' = "none"
  /\ ret' = << >>
  /\ UNCHANGED <<model, main_rflags, uflags, width, main_qpoly, apolys, nopts,
                 scan, stdout, stderr, status>>

\* Lines 495-511: reveng() has returned; ufound() has printed its models.
AfterReveng ==
  /\ mpc = "reveng"
  /\ pc = "done"
  /\ pc' = "idle"
  /\ uflags' = IF plen(ret[1].spoly) > 0 THEN uflags \cup {"C_RESULT"} ELSE uflags
  /\ stdout' = stdout \o ctx.found
  /\ IF "HAVERI" \notin main_rflags
     THEN /\ model' = [model EXCEPT !.flags = FlipEndian(@)]
          /\ apolys' = [k \in 1..Len(apolys) |-> prevch(apolys[k], ibperhx)]
          /\ main_pass' = main_pass + 1
     ELSE UNCHANGED <<model, apolys, main_pass>>
  /\ mpc' = IF "HAVERI" \notin main_rflags /\ main_pass + 1 < 2 THEN "again" ELSE "searched"
  /\ UNCHANGED <<main_rflags, width, main_qpoly, nopts, scan, revcalls, stderr, status,
                 inputs, rflags, pwork, factor, qqpoly, gpoly, spin, seq,
                 ctx, prog, errout, tested, path, ret>>

\* The end of the search with success whatever was found.
FinishOk ==
  /\ mpc = "searched"
  /\ status' = "EXIT_SUCCESS"
  /\ mpc' = "exit"
  /\ UNCHANGED <<mainlocals, stderr, revengvars>>

\* if(~uflags & C_RESULT) uerror("no models found"); exit(EXIT_SUCCESS)
Finish ==
  /\ mpc = "searched"
  /\ IF "C_RESULT" \notin uflags
     THEN uerror("no models found")
     ELSE /\ status' = "EXIT_SUCCESS"
          /\ mpc' = "exit"
          /\ UNCHANGED stderr
  /\ UNCHANGED <<mainlocals, revengvars>>

\* main() is entered; no call of reveng() is in progress.
InitMain ==
  /\ mpc = "getopt"
  /\ Defaults
  /\ guess = [spoly |-> pzero, init |-> pzero, xorout |-> pzero, flags |-> {}]
  /\ qpoly = pzero
  /\ rflags0 = {}
  /\ argpolys = << >>
  /\ pc = "idle"
  /\ rflags = {}
  /\ pwork = pzero /\ factor = pzero /\ qqpoly = pzero /\ gpoly = pzero
  /\ spin = 0 /\ seq = 0
  /\ ctx = ctx0
  /\ prog = << >> /\ errout = << >> /\ tested = << >>
  /\ path = "none"
  /\ ret = << >>

MainNext ==
  \/ Opt_1 \/ Opt_b \/ Opt_B \/ Opt_l \/ Opt_L \/ Opt_F \/ Opt_G \/ Opt_M
  \/ Opt_V \/ Opt_w \/ Opt_m \/ Opt_i \/ Opt_x \/ Opt_p \/ Opt_q
  \/ EndOptions
  \/ NonWilliams
  \/ NoWidth
  \/ ReadSamples
  \/ NoArgMemory
  \/ PresetPass
  \/ PresetExit
  \/ NoBruteForce
  \/ CrossedEndian
  \/ CallReveng
  \/ KnownPoly
  \/ Gcd
  \/ TooShort
  \/ UniqueGcd
  \/ SetupAbort
  \/ SetupLoop
  \/ LoopExit
  \/ LoopBody
  \/ Requit
  \/ AfterReveng
  \/ Finish

SpecMain == InitMain /\ [][MainNext]_vars

(***************************************************************************)
(* Properties of reveng().                                                 *)
(***************************************************************************)
\* The models of the returned array, without the terminating entry.
Returned == SubSeq(ret, 1, Len(ret) - 1)

\* The CRC of every sample is zero under the poly, Init and final XOR.
AllZero(aps, divisor, init, xor) ==
  \A j \in 1..Len(aps) : ~ptst(pcrc(aps[j], divisor, init, xor, {}))

\* C1 as stated: every model returned has every sample's CRC zero under
\* pcrc(s, spoly, init, xorout', flags), where xorout' is XorOut when
\* REFOUT is set and XorOut reversed when REFOUT is clear.
C1_AsStated ==
  pc = "done" =>
    \A k \in 1..Len(Returned) :
      \A j \in 1..Len(argpolys) :
        ~ptst(pcrc(argpolys[j], Returned[k].spoly, Returned[k].init,
                   IF "REFOUT" \in Returned[k].flags THEN Returned[k].xorout
                   ELSE prev(Returned[k].xorout),
                   Returned[k].flags))

\* C1: search soundness.  Every model returned has every sample's CRC zero
\* under pcrc(s, spoly, init, xorout', 0), where xorout' is XorOut reversed
\* when REFOUT is set and XorOut itself when REFOUT is clear.
C1_Sound ==
  pc = "done" =>
    \A k \in 1..Len(Returned) :
      AllZero(argpolys, Returned[k].spoly, Returned[k].init,
              IF "REFOUT" \in Returned[k].flags THEN prev(Returned[k].xorout)
              ELSE Returned[k].xorout)

\* A model is returned for two samples, REFOUT set, whose XorOut is not its
\* own reversal.
C1_Witness ==
  /\ pc = "done"
  /\ Len(argpolys) >= 2
  /\ \E k \in 1..Len(Returned) :
       /\ "REFOUT" \in Returned[k].flags
       /\ prev(Returned[k].xorout) # Returned[k].xorout

\* The final XOR chkres() applies for a model's XorOut.
ChkXor(flags, xorout) == IF "REFOUT" \in flags THEN prev(xorout) ELSE xorout

\* m is the model chkres() builds from the arguments of the call c.
ModelOf(m, c) ==
  /\ m.spoly = c.divisor
  /\ m.init = c.init
  /\ m.xorout = c.xorout
  /\ m.flags = c.flags
  /\ m.name = "NULL"

\* C2: a chkres() call appends exactly one model (spoly the divisor, Init,
\* XorOut as passed, flags, no name) to the result array and hands it to
\* ufound() exactly once if and only if the CRC of every sample is zero
\* with XorOut reversed when REFOUT is set; otherwise the result array and
\* its count stay as they were and ufound() is not called.  Nothing but
\* chkres() changes the array.
C2_Chkres ==
  /\ \A k \in 1..Len(ctx.chk) :
       LET cl == ctx.chk[k]
       IN  /\ cl.resc0 = (IF k = 1 THEN 0 ELSE ctx.chk[k - 1].resc1)
           /\ cl.found0 = (IF k = 1 THEN 0 ELSE ctx.chk[k - 1].found1)
           /\ IF AllZero(argpolys, cl.divisor, cl.init, ChkXor(cl.flags, cl.xorout))
              THEN /\ cl.resc1 = cl.resc0 + 1
                   /\ cl.found1 = cl.found0 + 1
                   /\ ModelOf(ctx.result[cl.resc1], cl)
                   /\ ctx.found[cl.found1] = ctx.result[cl.resc1]
              ELSE /\ cl.resc1 = cl.resc0
                   /\ cl.found1 = cl.found0
  /\ Len(ctx.result) = (IF ctx.chk = << >> THEN 0 ELSE ctx.chk[Len(ctx.chk)].resc1)
  /\ Len(ctx.found) = (IF ctx.chk = << >> THEN 0 ELSE ctx.chk[Len(ctx.chk)].found1)

\* chkres() has accepted one model, with REFOUT set, and rejected another
\* against two samples.
C2_Witness ==
  /\ Len(argpolys) >= 2
  /\ \E k \in 1..Len(ctx.chk) :
       /\ ctx.chk[k].resc1 = ctx.chk[k].resc0 + 1
       /\ "REFOUT" \in ctx.chk[k].flags
  /\ \E k \in 1..Len(ctx.chk) : ctx.chk[k].resc1 = ctx.chk[k].resc0

\* The trial factors tested so far that divide the GCD.
Dividing == {i \in 1..Len(tested) : ~ptst(pcrc(pwork, tested[i], pzero, pzero, {}))}

\* The chkres() calls made from the k-th dispch() call.
ChkCalls(k) ==
  SubSeq(ctx.chk, ctx.disp[k].chk0 + 1,
         IF k < Len(ctx.disp) THEN ctx.disp[k + 1].chk0 ELSE Len(ctx.chk))

\* C3: for a known poly and for every candidate poly of the search exactly
\* one strategy is called, chosen by HAVEI and HAVEX alone: both set,
\* chkres() with the guess's Init and XorOut; HAVEI alone, calout() with
\* the guess's Init; HAVEX alone, calini() with the guess's XorOut;
\* neither, engini().  HAVEQ, SHORT, HAVERI and HAVERO do not change it.
C3_Strategy ==
  /\ Len(ctx.disp) = (IF path \in {"known", "unique"} THEN 1
                      ELSE Cardinality(Dividing))
  /\ path = "known" => ctx.disp[1].divisor = guess.spoly
  /\ \A k \in 1..Len(ctx.disp) :
       LET havei == "HAVEI" \in ctx.disp[k].rf
           havex == "HAVEX" \in ctx.disp[k].rf
           calls == ChkCalls(k)
       IN  /\ ctx.disp[k].strategy =
                (IF havei /\ havex THEN "chkres" ELSE IF havei THEN "calout"
                 ELSE IF havex THEN "calini" ELSE "engini")
           /\ \A n \in 1..Len(calls) : calls[n].divisor = ctx.disp[k].divisor
           /\ havei /\ havex => /\ Len(calls) = 1
                          /\ calls[1].init = guess.init
                          /\ calls[1].xorout = guess.xorout
           /\ havei /\ ~havex => /\ Len(calls) = (IF argpolys = << >> THEN 0 ELSE 1)
                           /\ \A n \in 1..Len(calls) : calls[n].init = guess.init
           /\ ~havei /\ havex => /\ Len(calls) = (IF argpolys = << >> THEN 0 ELSE 1)
                           /\ \A n \in 1..Len(calls) : calls[n].xorout = guess.xorout

\* A poly of the search is dispatched to engini() with HAVEQ, SHORT, HAVERI
\* and HAVERO all set, and engini() gets as far as chkres().
C3_Witness ==
  \E k \in 1..Len(ctx.disp) :
    /\ {"HAVEQ", "SHORT", "HAVERI", "HAVERO"} \subseteq ctx.disp[k].rf
    /\ "HAVEP" \notin ctx.disp[k].rf
    /\ ctx.disp[k].strategy = "engini"
    /\ Len(ChkCalls(k)) >= 1

\* C4: on every return path the returned array is exactly the models handed
\* to ufound() during the call, in order, followed by one terminating entry
\* whose polys have no terms, whose flags are 0 and whose name is null.
C4_Returned ==
  pc = "done" =>
    /\ path \in {"known", "zerowidth", "tooshort", "unique", "abort", "enum"}
    /\ Len(ret) = Len(ctx.found) + 1
    /\ Returned = ctx.found
    /\ LET last == ret[Len(ret)]
       IN  /\ plen(last.spoly) = 0 /\ plen(last.init) = 0
           /\ plen(last.xorout) = 0 /\ plen(last.check) = 0
           /\ plen(last.magic) = 0
           /\ last.flags = {}
           /\ last.name = "NULL"

\* The enumeration has finished and returns two models or more.
C4_Witness ==
  /\ pc = "done"
  /\ path = "enum"
  /\ Len(ctx.found) >= 2

\* C5 as stated: with HAVEP clear and HAVEQ set, whatever the length of the
\* GCD, every model returned has a poly below qpoly and not below the start
\* poly.
C5_AsStated ==
  (pc = "done" /\ "HAVEP" \notin rflags0 /\ "HAVEQ" \in rflags0) =>
    \A k \in 1..Len(Returned) :
      /\ pcmp(Returned[k].spoly, qpoly) < 0
      /\ pcmp(Returned[k].spoly, guess.spoly) >= 0

\* C5: range honoured.  With HAVEP clear and HAVEQ set, when the GCD has
\* more than twice the width in terms (full enumeration), every model
\* returned has a poly below qpoly and not below the start poly.
C5_Range ==
  (/\ pc = "done" /\ "HAVEP" \notin rflags0 /\ "HAVEQ" \in rflags0
   /\ plen(pwork) > 2 * plen(guess.spoly)) =>
    \A k \in 1..Len(Returned) :
      /\ pcmp(Returned[k].spoly, qpoly) < 0
      /\ pcmp(Returned[k].spoly, guess.spoly) >= 0

\* A full enumeration with HAVEQ set has returned a model and has stopped
\* at the range end with a dividing factor left untested.
C5_Witness ==
  /\ pc = "done" /\ "HAVEP" \notin rflags0 /\ "HAVEQ" \in rflags0
  /\ plen(pwork) > 2 * plen(guess.spoly)
  /\ Len(Returned) >= 1
  /\ ~ptst(pcrc(pwork, factor, pzero, pzero, {}))

\* Init with some XorOut passes the check of all samples under the known
\* poly.
InitFits(init) ==
  \E xorout \in BitStrings(plen(guess.spoly)) :
    AllZero(argpolys, guess.spoly, init, xorout)

\* The returned models with this Init.
WithInit(init) == {k \in 1..Len(Returned) : Returned[k].init = init}

\* Only the poly is known and EXHST is clear.
InitSearch ==
  /\ rflags0 \cap {"HAVEP", "HAVEI", "HAVEX"} = {"HAVEP"}
  /\ "EXHST" \notin guess.flags

\* C6 as stated: for every sample list, also one of samples of one length,
\* every Init that fits is the Init of exactly one returned model.
C6_AsStated ==
  (pc = "done" /\ InitSearch) =>
    \A init \in BitStrings(plen(guess.spoly)) :
      InitFits(init) => Cardinality(WithInit(init)) = 1

\* C6: Init completeness.  With only the poly known and EXHST clear, for
\* every list of samples of at least width bits and of two lengths or more,
\* every Init for which some XorOut passes the check of all samples is the
\* Init of exactly one returned model.
C6_Complete ==
  (/\ pc = "done" /\ InitSearch
   /\ \A j \in 1..Len(argpolys) : plen(argpolys[j]) >= plen(guess.spoly)
   /\ \E i \in 1..Len(argpolys), j \in 1..Len(argpolys) :
        plen(argpolys[i]) # plen(argpolys[j])) =>
    \A init \in BitStrings(plen(guess.spoly)) :
      InitFits(init) => Cardinality(WithInit(init)) = 1

\* Samples of two lengths for which more than one Init fits, all returned.
C6_Witness ==
  /\ pc = "done" /\ InitSearch
  /\ \E i \in 1..Len(argpolys), j \in 1..Len(argpolys) :
       plen(argpolys[i]) # plen(argpolys[j])
  /\ Cardinality({init \in BitStrings(plen(guess.spoly)) : InitFits(init)}) >= 2
  /\ Len(Returned) >= 2

\* C8 as stated: in a poly search the polys of successive ufound() calls
\* are strictly increasing, in full enumeration and in short mode, also
\* when engini() yields several Init values for one poly.
C8_AsStated ==
  "HAVEP" \notin rflags0 =>
    \A k \in 1..(Len(ctx.found) - 1) :
      PolyVal(ctx.found[k].spoly) < PolyVal(ctx.found[k + 1].spoly)

\* C8: in a poly search in full enumeration the models are handed to
\* ufound() in the order the trial factors are tested: the polys of
\* successive calls never decrease in the counting order of piter(), and
\* they increase strictly unless engini() yields several Init values for
\* one poly (neither HAVEI nor HAVEX set).
C8_Order ==
  ("HAVEP" \notin rflags0 /\ plen(pwork) > 2 * plen(guess.spoly)) =>
    /\ \A k \in 1..(Len(ctx.found) - 1) :
         /\ PolyVal(ctx.found[k].spoly) <= PolyVal(ctx.found[k + 1].spoly)
         /\ rflags0 \cap {"HAVEI", "HAVEX"} # {} =>
              PolyVal(ctx.found[k].spoly) < PolyVal(ctx.found[k + 1].spoly)
    /\ \A k \in 1..Len(ctx.found) :
         \E i \in Dividing : tested[i] = ctx.found[k].spoly

\* A full enumeration has found two Init values for one poly and then a
\* model of a greater poly.
C8_Witness ==
  /\ "HAVEP" \notin rflags0 /\ plen(pwork) > 2 * plen(guess.spoly)
  /\ \E k \in 1..(Len(ctx.found) - 2) :
       /\ ctx.found[k].spoly = ctx.found[k + 1].spoly
       /\ ctx.found[k].init # ctx.found[k + 1].init
       /\ pcmp(ctx.found[k + 1].spoly, ctx.found[k + 2].spoly) < 0

\* C9: uprog() is called exactly for the trial factors whose position in
\* the enumeration, from 0, is a multiple of R_SPMASK + 1, before the
\* factor is tested; the k-th call, from 0, carries the sequence number k;
\* uprog() prints nothing for sequence number 0; and no call is made when
\* the poly is known, the GCD is too short or the GCD is unique.
C9_Progress ==
  /\ Len(prog) = Cardinality({i \in 0..(Len(tested) - 1) : i % (R_SPMASK + 1) = 0})
  /\ \A k \in 0..(Len(prog) - 1) :
       /\ prog[k + 1].seq = k
       /\ prog[k + 1].before = k * (R_SPMASK + 1)
       /\ prog[k + 1].poly = tested[k * (R_SPMASK + 1) + 1]
       /\ prog[k + 1].flags = guess.flags
  /\ Len(errout) = (IF prog = << >> THEN 0 ELSE Len(prog) - 1)
  /\ \A k \in 1..Len(errout) : errout[k].poly = prog[k + 1].poly
  /\ path \in {"known", "tooshort", "unique"} => prog = << >>

\* Three trial factors or more have been tested and the second uprog()
\* call has printed its line.
C9_Witness ==
  /\ Len(tested) >= 3
  /\ Len(prog) >= 2
  /\ Len(errout) >= 1

\* The sample is a message followed by its CRC under the model.
GeneratedBy(sample, poly, init, xorout) ==
  /\ plen(sample) >= plen(poly)
  /\ sample = Codeword(SubSeq(sample, 1, plen(sample) - plen(poly)),
                       poly, init, xorout)

\* The models with the +1 term, RefIn and RefOut false, under which every
\* sample is a message followed by its CRC.
Generators ==
  {g \in [spoly : OddPolys(plen(guess.spoly)),
          init : BitStrings(plen(guess.spoly)),
          xorout : BitStrings(plen(guess.spoly))] :
     \A j \in 1..Len(argpolys) :
       GeneratedBy(argpolys[j], g.spoly, g.init, g.xorout)}

\* The model is in the returned array, with RefIn and RefOut false.
IsReturned(gen) ==
  \E k \in 1..Len(Returned) :
    /\ Returned[k].spoly = gen.spoly
    /\ Returned[k].init = gen.init
    /\ Returned[k].xorout = gen.xorout
    /\ Returned[k].flags \cap {"REFIN", "REFOUT"} = {}

\* A search with nothing known, from an all-zero start poly, RefIn and
\* RefOut false, over four samples or more, has returned.
BlindSearch ==
  /\ pc = "done"
  /\ rflags0 \cap {"HAVEP", "HAVEI", "HAVEX", "HAVEQ"} = {}
  /\ ~ptst(guess.spoly)
  /\ guess.flags \cap {"REFIN", "REFOUT"} = {}
  /\ Len(argpolys) >= 4

\* C7 as stated: the samples are generated under a model for messages of
\* different lengths, and the model is in the returned array.
C7_AsStated ==
  (/\ BlindSearch
   /\ \A i \in 1..Len(argpolys), j \in 1..Len(argpolys) :
        i # j => plen(argpolys[i]) # plen(argpolys[j])) =>
    \A g \in Generators : IsReturned(g)

\* C7: search with all parameters unknown.  With HAVEP, HAVEI, HAVEX and
\* HAVEQ clear, EXHST clear and an all-zero start poly, given four samples
\* or more generated under a model with RefIn and RefOut false, of which
\* two of the same length differ and not all have the same length, the
\* generating model is in the returned array.
C7_Found ==
  (/\ BlindSearch
   /\ "EXHST" \notin guess.flags
   /\ \E i \in 1..Len(argpolys), j \in 1..Len(argpolys) :
        plen(argpolys[i]) = plen(argpolys[j]) /\ argpolys[i] # argpolys[j]
   /\ \E i \in 1..Len(argpolys), j \in 1..Len(argpolys) :
        plen(argpolys[i]) # plen(argpolys[j])) =>
    \A g \in Generators : IsReturned(g)

\* Such a search has enumerated the trial factors and returned the
\* generating model among others.
C7_Witness ==
  /\ BlindSearch
  /\ "EXHST" \notin guess.flags
  /\ \E i \in 1..Len(argpolys), j \in 1..Len(argpolys) :
       plen(argpolys[i]) = plen(argpolys[j]) /\ argpolys[i] # argpolys[j]
  /\ \E i \in 1..Len(argpolys), j \in 1..Len(argpolys) :
       plen(argpolys[i]) # plen(argpolys[j])
  /\ path = "enum"
  /\ Generators # {}
  /\ Len(Returned) >= 2

(***************************************************************************)
(* Properties of main().                                                   *)
(***************************************************************************)
\* Exactly one of REFIN and REFOUT is set.
Crossed(flags) == ("REFIN" \in flags) # ("REFOUT" \in flags)

\* The last line main() has printed on stderr.
LastError == IF stderr = << >> THEN "" ELSE stderr[Len(stderr)]

\* No model handed to reveng() is crossed-endian, and the second pass runs
\* with REFIN and REFOUT both inverted.
CallsStraight ==
  /\ \A k \in 1..Len(revcalls) : ~Crossed(revcalls[k].flags)
  /\ mpc = "reveng" => ~Crossed(guess.flags) /\ guess.flags = model.flags
  /\ Len(revcalls) <= 2
  /\ Len(revcalls) = 2 =>
       /\ ("REFIN" \in revcalls[2].flags) # ("REFIN" \in revcalls[1].flags)
       /\ ("REFOUT" \in revcalls[2].flags) # ("REFOUT" \in revcalls[1].flags)

\* A step of the search branch that changes the flags of the model inverts
\* REFIN and REFOUT and leaves the other flags alone.
ToggleBoth ==
  (mpc \notin {"getopt", "library"} /\ model'.flags # model.flags) =>
    /\ ("REFIN" \in model'.flags) # ("REFIN" \in model.flags)
    /\ ("REFOUT" \in model'.flags) # ("REFOUT" \in model.flags)
    /\ model'.flags \ {"REFIN", "REFOUT"} = model.flags \ {"REFIN", "REFOUT"}

\* C10 as stated: no call of reveng() made by main() has a guess with
\* exactly one of REFIN and REFOUT set; whenever the two differ after the
\* scan against the presets, main() ends with "cannot search for
\* crossed-endian models" and has not called reveng(); the toggle between
\* the passes inverts both.
C10_AsStated ==
  /\ [](CallsStraight
        /\ ((mpc = "exit" /\ scan = "done" /\ Crossed(model.flags)) =>
              /\ revcalls = << >>
              /\ LastError = "cannot search for crossed-endian models"))
  /\ [][ToggleBoth]_vars

\* C10: no call of reveng() made by main(), in the first or the second
\* pass, has a guess with exactly one of REFIN and REFOUT set, and the
\* toggle between the passes inverts both.  When the two differ once the
\* scan against the presets is over or skipped, main() ends without calling
\* reveng(): with success if a preset solved the samples, with "no models
\* found" under -G without a known poly, and with "cannot search for
\* crossed-endian models" otherwise.
C10_Driver ==
  /\ [](CallsStraight
        /\ ((scan # "none" /\ Crossed(model.flags)) =>
              /\ revcalls = << >>
              /\ mpc \in {"scanned", "exit"})
        /\ ((mpc = "exit" /\ scan # "none" /\ Crossed(model.flags)) =>
              IF "C_RESULT" \in uflags
              THEN status = "EXIT_SUCCESS" /\ scan = "done"
              ELSE /\ status = "EXIT_FAILURE"
                   /\ LastError = IF "C_NOBFS" \in uflags /\ "HAVEP" \notin main_rflags
                                  THEN "no models found"
                                  ELSE "cannot search for crossed-endian models"))
  /\ [][ToggleBoth]_vars

\* main() has run both passes of the search after -B or -L alone, and a
\* model was found.
C10_Witness ==
  /\ mpc = "exit"
  /\ Len(revcalls) = 2
  /\ "HAVERO" \in main_rflags /\ "HAVERI" \notin main_rflags
  /\ "C_RESULT" \in uflags
  /\ stdout # << >>

\* main() has got past the checks of -M and of the width.
ChecksPassed ==
  LastError \notin {"cannot search for non-Williams compliant models",
                    "must specify positive -k, -P or -w before -s"}

\* The fatal messages of the search branch.
SearchErrors ==
  {"no models found", "cannot search for crossed-endian models",
   "cannot allocate memory for argument list"}

\* C11: when main() ends in -s mode after the checks of -M and of the width,
\* the exit status is success exactly when ufound() has reported a model, in
\* the scan of the presets or in a pass of reveng(); when none was reported
\* the last line printed is a fatal message and the status is failure.
C11_ExitStatus ==
  (mpc = "exit" /\ ChecksPassed) =>
    /\ status \in {"EXIT_SUCCESS", "EXIT_FAILURE"}
    /\ status = "EXIT_SUCCESS" <=> stdout # << >>
    /\ "C_RESULT" \in uflags <=> stdout # << >>
    /\ stdout = << >> => LastError \in SearchErrors
    /\ revcalls # << >> =>
         (stdout # << >> <=> \E k \in 1..Len(stdout) : stdout[k].name = "NULL")

\* main() has ended with success after a second pass of reveng() that
\* reported the only model.
C11_Witness ==
  /\ mpc = "exit"
  /\ status = "EXIT_SUCCESS"
  /\ Len(revcalls) = 2
  /\ Len(stdout) = 1
  /\ ctx.found = stdout

\* A canonical model of the width searched: the lowest bit of spoly is 1
\* and init and xorout are as long as spoly.
Canonical(m) ==
  /\ plen(m.spoly) > 0
  /\ m.spoly[plen(m.spoly)] = 1
  /\ plen(m.init) = plen(m.spoly)
  /\ plen(m.xorout) = plen(m.spoly)

\* C12: every model reveng() reports through found is canonical, the poly
\* given by the user under HAVEP included.
C12_Canonical ==
  \A k \in 1..Len(ctx.found) : Canonical(ctx.found[k])

\* The models found by a search for the poly are canonical, and so is every
\* model found whose poly the user gave with a +1 term.
C12_Searched ==
  \A k \in 1..Len(ctx.found) :
    ("HAVEP" \notin rflags0 \/ guess.spoly[plen(guess.spoly)] = 1)
      => Canonical(ctx.found[k])

\* Properties of the paths of reveng()

\* The search for the poly has been set up or has ended.
Searched ==
  /\ "HAVEP" \notin rflags0
  /\ plen(guess.spoly) > 0
  /\ pc \in {"loop", "requit", "done"}

\* The trial factors tested so far are all of the given length.
TestedOfLength(bits) ==
  \A k \in 1..Len(tested) : plen(tested[k]) = bits

\* C13: in a search for the poly of positive width w the length of the GCD D
\* of the differences decides the path: below w + 1 nothing is dispatched;
\* at w + 1 the GCD without its top bit is dispatched once and no factor is
\* enumerated; from w + 2 to 2w the search is in short mode with trial
\* factors of len(D) - w - 1 bits; above 2w trial factors of w bits are
\* enumerated with SHORT clear, whatever SHORT bit the caller passed.
C13_Paths ==
  Searched =>
    LET gw == plen(guess.spoly)
    IN  /\ pwork = modpol(guess.init, rflags0, argpolys)
        /\ plen(pwork) < gw + 1 =>
             /\ path = "tooshort"
             /\ ctx.disp = << >> /\ tested = << >>
        /\ plen(pwork) = gw + 1 =>
             /\ path = "unique"
             /\ tested = << >>
             /\ Len(ctx.disp) = 1
             /\ ctx.disp[1].divisor = Tail(pwork)
        /\ (gw + 1 < plen(pwork) /\ plen(pwork) <= 2 * gw) =>
             /\ "SHORT" \in rflags
             /\ \/ path = "abort" /\ pc # "loop"
                   /\ ctx.disp = << >> /\ tested = << >>
                \/ /\ path = IF pc = "loop" THEN "none" ELSE "enum"
                   /\ plen(factor) = plen(pwork) - gw - 1
                   /\ TestedOfLength(plen(pwork) - gw - 1)
        /\ plen(pwork) > 2 * gw =>
             /\ "SHORT" \notin rflags
             /\ path = IF pc = "loop" THEN "none" ELSE "enum"
             /\ plen(factor) = gw
             /\ TestedOfLength(gw)

\* A full enumeration that was called with SHORT set has ended with a
\* candidate dispatched.
C13_Witness ==
  /\ Searched
  /\ pc = "done"
  /\ "SHORT" \in rflags0
  /\ plen(pwork) > 2 * plen(guess.spoly)
  /\ path = "enum"
  /\ ctx.disp # << >>

\* The search is in short mode, with a range end or a start poly given.
ShortRange ==
  /\ Searched
  /\ plen(guess.spoly) + 1 < plen(pwork)
  /\ plen(pwork) <= 2 * plen(guess.spoly)
  /\ "HAVEQ" \in rflags0 \/ ptst(guess.spoly)

\* C14: in short mode with trial factors of r = len(D) - width - 1 bits and
\* a range end or a nonzero start poly given: a start poly above 2^r - 1
\* aborts the search with nothing dispatched; otherwise a range end above
\* 2^r - 1 clears HAVEQ and the enumeration ends when the factor wraps, and
\* a range end within it is cut to its low r bits; the start poly is cut to
\* its low r bits with its value kept.
C14_Range ==
  ShortRange =>
    LET rlen  == plen(pwork) - plen(guess.spoly) - 1
        top   == 2 ^ rlen - 1
        from  == PolyVal(guess.spoly)
        upto  == PolyVal(qpoly)
        aim   == IF from % 2 = 0 THEN from + 1 ELSE from
    IN  /\ from > top =>
             /\ path = "abort" /\ pc # "loop"
             /\ ctx.disp = << >> /\ tested = << >>
        /\ from <= top =>
             /\ path # "abort"
             /\ plen(factor) = rlen
             /\ tested = << >> /\ pc = "loop" =>
                  /\ factor = pright(guess.spoly, rlen)
                       \/ piter(factor) = pright(guess.spoly, rlen)
                  /\ PolyVal(piter(factor)) = aim
             /\ tested # << >> => PolyVal(tested[1]) = aim
        /\ (from <= top /\ "HAVEQ" \in rflags0 /\ upto > top) =>
             /\ "HAVEQ" \notin rflags
             /\ pc # "loop" =>
                  /\ tested # << >>
                  /\ tested[Len(tested)] = pinv(palloc(rlen))
                  /\ ~ptst(factor)
        /\ (from <= top /\ "HAVEQ" \in rflags0 /\ upto <= top) =>
             /\ "HAVEQ" \in rflags
             /\ qqpoly = pright(qpoly, rlen)
             /\ PolyVal(qqpoly) = upto

\* A short search of three-bit factors has ended at the wrap of the factor
\* after a range end that was out of range, with a candidate dispatched.
C14_Witness ==
  /\ ShortRange
  /\ pc = "done"
  /\ plen(pwork) - plen(guess.spoly) - 1 = 3
  /\ "HAVEQ" \in rflags0 /\ "HAVEQ" \notin rflags
  /\ ptst(guess.spoly)
  /\ Len(tested) > 1
  /\ ctx.disp # << >>

\* The odd polys of the enumeration width from the start poly up, and
\* below the range end when HAVEQ was passed, as numbers.
InRange ==
  {f \in 1..(2 ^ plen(factor) - 1) :
     /\ f % 2 = 1
     /\ PolyVal(guess.spoly) <= f
     /\ "HAVEQ" \in rflags0 => f < PolyVal(qpoly)}

\* The trial factors tested are odd polys of the enumeration width in
\* increasing order without a gap, from the start poly or the poly after
\* it; when the loop has ended they are all the polys of the range, and
\* without a range end the last one is the all-ones poly.
Enumerated ==
  (Searched /\ plen(pwork) > plen(guess.spoly) + 1 /\ path # "abort") =>
    /\ \A k \in 1..Len(tested) :
         /\ plen(tested[k]) = plen(factor)
         /\ PolyVal(tested[k]) \in InRange
         /\ k = 1 => PolyVal(tested[k]) \in
                       {PolyVal(guess.spoly), PolyVal(guess.spoly) + 1}
         /\ k > 1 => PolyVal(tested[k]) = PolyVal(tested[k - 1]) + 2
    /\ pc # "loop" =>
         /\ {PolyVal(tested[k]) : k \in 1..Len(tested)} = InRange
         /\ Len(tested) = Cardinality(InRange)
         /\ "HAVEQ" \notin rflags0 =>
              /\ tested # << >>
              /\ tested[Len(tested)] = pinv(palloc(plen(factor)))
              /\ ~ptst(factor)

\* C15: the enumeration loop of reveng() ends, and it tests exactly the odd
\* polys of the enumeration width from the start poly up (and below qpoly
\* under HAVEQ), each once and in increasing order: an even start poly s
\* begins at s + 1, an odd one is tested itself, and without HAVEQ the loop
\* ends when the counter wraps after the all-ones poly.
C15_Enumeration ==
  /\ []Enumerated
  /\ (pc = "loop") ~> (pc = "done")

\* An enumeration from an odd start poly above one to a range end has
\* tested two factors or more and has returned.
C15_Witness ==
  /\ Searched
  /\ pc = "done"
  /\ path = "enum"
  /\ "HAVEQ" \in rflags
  /\ PolyVal(guess.spoly) > 1
  /\ Len(tested) >= 2
  /\ PolyVal(tested[1]) = PolyVal(guess.spoly)

\* Properties of engini()

\* engini() builds the matrix: there are samples of two lengths.
MatrixBuilt ==
  /\ Len(argpolys) >= 1
  /\ TwoShortest(argpolys, 2, 1, 1)[1] # TwoShortest(argpolys, 2, 1, 1)[2]

\* The empty rows of the matrix engini() has reduced for a divisor.
EmptyRows(divisor) ==
  {j \in 0..(Len(divisor) - 1) : EnginiMat(divisor, argpolys)[j] = pzero}

\* The dispch() calls that have run the solution loop of engini().
Solved ==
  {k \in 1..Len(ctx.disp) : ctx.disp[k].strategy = "engini" /\ MatrixBuilt}

\* C16: when engini() enumerates the solutions with k empty rows in
\* mat[0 .. width-1], calout() is called once if EXHST is set; if EXHST is
\* clear it is called 2^k times, with Init values that differ and that give
\* the k free bits every assignment, and the loop ends with the rows it
\* toggled empty again.
C16_Solutions ==
  pc = "done" =>
    \A k \in Solved :
      LET dv     == ctx.disp[k].divisor
          free   == EmptyRows(dv)
          bone1  == psum(palloc(Len(dv) + 1), <<1>>, Len(dv))
          sweeps == SolvePasses(EnginiMat(dv, argpolys), bone1, guess.flags,
                                Len(dv))
          made   == ChkCalls(k)
      IN  /\ Len(made) = Len(sweeps)
          /\ \A i \in 1..Len(made) :
               /\ made[i].divisor = dv
               /\ made[i].init = praloc(sweeps[i].apoly, Len(dv))
          /\ sweeps[Len(sweeps)].cy
          /\ "EXHST" \in guess.flags => Len(made) = 1
          /\ "EXHST" \notin guess.flags =>
               /\ Len(made) = 2 ^ Cardinality(free)
               /\ Cardinality({made[i].init : i \in 1..Len(made)}) = Len(made)
               /\ {[j \in free |-> made[i].init[j + 1]] : i \in 1..Len(made)}
                    = [free -> {0, 1}]
               /\ sweeps[Len(sweeps)].mat = EnginiMat(dv, argpolys)

\* engini() has enumerated four solutions over two free bits of Init.
C16_Witness ==
  /\ pc = "done"
  /\ \E k \in Solved :
       /\ Cardinality(EmptyRows(ctx.disp[k].divisor)) = 2
       /\ "EXHST" \notin guess.flags
       /\ Len(ChkCalls(k)) = 4

\* The lengths of the samples.
Lengths == {plen(argpolys[i]) : i \in 1..Len(argpolys)}

\* The least number of a nonempty set of numbers.
Least(S) == CHOOSE x \in S : \A y \in S : x <= y

\* C17: for every list of one sample or more, in any order, engini() makes
\* a single calini() call with an all-zero XorOut of the width exactly when
\* all samples have one length; otherwise it takes for a a sample of the
\* least length and for b a sample of the least length above it.
C17_TwoShortest ==
  (pc = "done" /\ Len(argpolys) >= 1) =>
    \A k \in 1..Len(ctx.disp) :
      ctx.disp[k].strategy = "engini" =>
        LET sel    == TwoShortest(argpolys, 2, 1, 1)
            la     == plen(argpolys[sel[1]])
            lb     == plen(argpolys[sel[2]])
            dv     == ctx.disp[k].divisor
            made   == ChkCalls(k)
            alone  == calini(ctx0, dv, guess.flags, palloc(plen(dv)),
                             argpolys).chk[1]
        IN  /\ sel[1] = sel[2] <=> Cardinality(Lengths) = 1
            /\ Cardinality(Lengths) = 1 =>
                 /\ Len(made) = 1
                 /\ made[1].xorout = palloc(plen(dv))
                 /\ made[1].divisor = dv
                 /\ made[1].init = alone.init
                 /\ made[1].flags = guess.flags
            /\ Cardinality(Lengths) > 1 =>
                 /\ la = Least(Lengths)
                 /\ lb = Least(Lengths \ {la})
                 /\ lb - la >= 1
                 /\ Len(made) = Len(SolvePasses(EnginiMat(dv, argpolys),
                                   psum(palloc(plen(dv) + 1), <<1>>, plen(dv)),
                                   guess.flags, plen(dv)))

\* engini() has run on three samples of three lengths, the longest first
\* and the shortest last, and on the matrix of the two shortest.
C17_Witness ==
  /\ pc = "done"
  /\ Len(argpolys) = 3
  /\ plen(argpolys[1]) > plen(argpolys[2])
  /\ plen(argpolys[3]) < plen(argpolys[2])
  /\ TwoShortest(argpolys, 2, 1, 1) = <<3, 2>>
  /\ \E k \in 1..Len(ctx.disp) : ctx.disp[k].strategy = "engini"
  /\ ctx.found # << >>

\* Properties of modpol()

\* The models, RefIn and RefOut false, under which every sample is a
\* message followed by its CRC, and whose Init is the one given to the
\* search under HAVEI.
GeneratorsGiven ==
  {g \in [spoly : BitStrings(plen(guess.spoly)),
          init : IF "HAVEI" \in rflags0 THEN {guess.init}
                 ELSE BitStrings(plen(guess.spoly)),
          xorout : BitStrings(plen(guess.spoly))] :
     \A j \in 1..Len(argpolys) :
       GeneratedBy(argpolys[j], g.spoly, g.init, g.xorout)}

\* The poly is a multiple of the generator with the chopped form spoly.
MultipleOf(spoly, p) == ~ptst(pcrc(p, spoly, pzero, pzero, {}))

\* Bit i of the poly p laid from the bit offset ofs in a longer poly.
Laid(p, ofs, i) == IF i > ofs /\ i <= ofs + plen(p) THEN p[i - ofs] ELSE 0

\* The difference of a shorter and a longer sample under a known Init: the
\* shorter right-aligned in the longer, Init at the offset 0 and at the
\* offset where the shorter sample starts.
InitDifference(brief, whole, init) ==
  [i \in 1..plen(whole) |->
     (whole[i] + Laid(brief, plen(whole) - plen(brief), i) + Laid(init, 0, i)
      + Laid(init, plen(whole) - plen(brief), i)) % 2]

Calinis ==
  {k \in 1..Len(ctx.disp) :
     /\ Len(argpolys) >= 1
     /\ \/ ctx.disp[k].strategy = "calini"
        \/ ctx.disp[k].strategy = "engini" /\ ~MatrixBuilt}

\* The XorOut chkres() adds to the CRC of a sample.
ChkXorOut(entry) ==
  IF "REFOUT" \in entry.flags THEN prev(entry.xorout) ELSE entry.xorout

\* C19: for a poly with its +1 term, every XorOut of the width, REFOUT set
\* or clear and a shortest sample of the width or longer, the Init calini()
\* computes (the reversed sample under the reciprocal poly, seeded with
\* XorOut reversed when REFOUT is clear, the result reversed) makes the CRC
\* chkres() takes of the shortest sample zero: the candidate is rejected
\* only for another sample.
C19_Calini ==
  pc = "done" =>
    \A k \in Calinis :
      LET made  == ChkCalls(k)
          near  == ShortestFrom(argpolys, 2, 1)
          seed  == IF "REFOUT" \in guess.flags THEN made[1].xorout
                   ELSE prev(made[1].xorout)
      IN  /\ Len(made) = 1
          /\ made[1].divisor = ctx.disp[k].divisor
          /\ made[1].flags = guess.flags
          /\ plen(made[1].xorout) = plen(made[1].divisor)
          /\ (/\ made[1].divisor[plen(made[1].divisor)] = 1
              /\ plen(argpolys[near]) >= plen(made[1].divisor)) =>
               /\ made[1].init =
                    prev(pcrc(prev(argpolys[near]), prcp(made[1].divisor),
                              seed, pzero, {}))
               /\ ~ptst(pcrc(argpolys[near], made[1].divisor, made[1].init,
                             ChkXorOut(made[1]), {}))
               /\ made[1].found1 = made[1].found0 =>
                    \E j \in 1..Len(argpolys) :
                      /\ j # near
                      /\ ptst(pcrc(argpolys[j], made[1].divisor, made[1].init,
                                   ChkXorOut(made[1]), {}))

\* calini() has computed Init for a XorOut that is not its own mirror image
\* under REFOUT, and chkres() has rejected the candidate for the longer
\* sample.
C19_Witness ==
  /\ pc = "done"
  /\ "REFOUT" \in guess.flags
  /\ Len(argpolys) = 2
  /\ plen(argpolys[1]) > plen(argpolys[2])
  /\ \E k \in Calinis :
       /\ ctx.disp[k].strategy = "calini"
       /\ ctx.disp[k].divisor[plen(ctx.disp[k].divisor)] = 1
       /\ ChkCalls(k)[1].xorout # prev(ChkCalls(k)[1].xorout)
       /\ ptst(ChkCalls(k)[1].init)
       /\ ChkCalls(k)[1].found1 = ChkCalls(k)[1].found0

\* Properties of the short mode

\* A search in short mode from an all-zero start poly with no range end
\* has returned.
ShortSearch ==
  /\ Searched
  /\ pc = "done"
  /\ plen(guess.spoly) + 1 < plen(pwork)
  /\ plen(pwork) <= 2 * plen(guess.spoly)
  /\ ~ptst(guess.spoly)
  /\ "HAVEQ" \notin rflags0

\* The polys of the width with the +1 term whose full form divides the
\* GCD: the candidates of the full enumeration.
Candidates ==
  {f \in OddPolys(plen(guess.spoly)) :
     ~ptst(pcrc(pwork, f, pzero, pzero, {}))}

\* C20: in short mode from an all-zero start poly with HAVEQ clear, the
\* polys handed to dispch() are exactly the polys of the width with the +1
\* term whose full form divides the GCD, the candidates of the full
\* enumeration; each is dispatched once and each has the length of the
\* width.
C20_ShortMode ==
  ShortSearch =>
    /\ "SHORT" \in rflags
    /\ {ctx.disp[k].divisor : k \in 1..Len(ctx.disp)} = Candidates
    /\ Len(ctx.disp) = Cardinality(Candidates)
    /\ \A k \in 1..Len(ctx.disp) :
         plen(ctx.disp[k].divisor) = plen(guess.spoly)

\* A short search with trial factors of three bits has dispatched two
\* candidates, and has tested trial factors that do not divide the GCD.
C20_Witness ==
  /\ ShortSearch
  /\ plen(factor) = 3
  /\ Len(ctx.disp) = 2
  /\ Len(tested) > Len(ctx.disp)

\* Properties of the row reduction of engini()

\* The passes of the row reduction engini() runs for a divisor.
Reduction(divisor) ==
  EchelonSteps([j \in 0..(Len(divisor) - 1) |-> pzero],
               InitContrib(divisor, argpolys).pows,
               InitContrib(divisor, argpolys).bcrc, 0, Len(divisor))

\* Every row of mat[0 .. dlen-1] is the empty sentinel, or a row of dlen+1
\* bits whose first set bit is at its own index.
EchelonForm(mat, dlen) ==
  \A j \in 0..(dlen - 1) :
    \/ mat[j] = pzero
    \/ /\ plen(mat[j]) = dlen + 1
       /\ pfirst(mat[j]) = j

\* C21: during the row reduction of engini(), after each of the width
\* transposed rows has been processed every mat[j] with 0 <= j < width is
\* the empty sentinel or a row of width+1 bits whose first set bit is at
\* index j; each XOR of the inner loop is with a stored row mat[j] and
\* moves the first set bit of the working row to an index above j, so that
\* the loop ends within width steps; a working row left with no set bit
\* below index width is discarded and the matrix stays as it was, any other
\* is stored in the empty row of its first set bit.
C21_RowReduction ==
  pc = "done" =>
    \A k \in Solved :
      LET dv     == ctx.disp[k].divisor
          dl     == plen(dv)
          trail == Reduction(dv)
      IN  /\ Len(trail) = dl
          /\ trail[dl].after = EnginiMat(dv, argpolys)
          /\ \A n \in 1..dl :
               LET rows == trail[n].rows
                   red  == rows[Len(rows)]
               IN  /\ EchelonForm(trail[n].before, dl)
                   /\ EchelonForm(trail[n].after, dl)
                   /\ \A t \in 1..Len(rows) : plen(rows[t]) = dl + 1
                   /\ \A t \in 1..(Len(rows) - 1) :
                        /\ pfirst(rows[t]) < dl
                        /\ trail[n].before[pfirst(rows[t])] # pzero
                        /\ pfirst(rows[t + 1]) > pfirst(rows[t])
                   /\ Len(rows) <= dl + 1
                   /\ red = ReduceRow(trail[n].before, rows[1], dl)
                   /\ pfirst(red) >= dl =>
                        /\ ~trail[n].stored
                        /\ trail[n].after = trail[n].before
                   /\ pfirst(red) < dl =>
                        /\ trail[n].stored
                        /\ trail[n].before[pfirst(red)] = pzero
                        /\ trail[n].after =
                             [trail[n].before EXCEPT ![pfirst(red)] = red]

\* engini() has reduced the rows for a divisor of ReduceWidth bits: one
\* row was stored as transposed, one was stored after an XOR with a stored
\* row, and one was discarded after two XORs.
C21_Witness ==
  /\ pc = "done"
  /\ \E k \in Solved :
       LET trail == Reduction(ctx.disp[k].divisor)
       IN  /\ plen(ctx.disp[k].divisor) = ReduceWidth
           /\ \E n \in 1..Len(trail) :
                trail[n].stored /\ Len(trail[n].rows) = 1
           /\ \E n \in 1..Len(trail) :
                trail[n].stored /\ Len(trail[n].rows) = 2
           /\ \E n \in 1..Len(trail) :
                ~trail[n].stored /\ Len(trail[n].rows) = 3

\* Properties of the reads of argpolys[]

\* engini() has been dispatched in this call of reveng().
EnginiCalled == \E k \in 1..Len(ctx.disp) : ctx.disp[k].strategy = "engini"

\* C22: whatever args and rflags are, reveng() and its strategies read
\* only the entries argpolys[i] with 0 <= i < args; with no samples no
\* entry is read.
C22_ReadsInRange ==
  \A i \in ctx.reads : i >= 0 /\ i < Len(argpolys)

\* With a sample or more the reads are within argpolys[0 .. args-1]; with
\* none, nothing is read unless engini() is dispatched, which reads
\* argpolys[0].
C22_Sampled ==
  /\ Len(argpolys) >= 1 => ctx.reads \subseteq 0..(Len(argpolys) - 1)
  /\ Len(argpolys) = 0 => ctx.reads = (IF EnginiCalled THEN {0} ELSE {})

====
